---- MODULE Spec2Model ----
(***************************************************************************)
(* Portfolio sizing and rebalancing engine.                                *)
(*                                                                         *)
(*  SpecOpt       mean_variance_optimize (both implementations) applied to  *)
(*                bounded mean vectors and covariance matrices.            *)
(*  SpecRebalance size_positions followed by _execute_trades_long_only,    *)
(*                repeated on a ledger, with any decisions and prices.     *)
(*  SpecRunner    main() of mvo_blm_runner.py: schedule construction and    *)
(*                the day loop (revaluation and rebalance days).           *)
(*  SpecCsv       run() of testing/mvo_blm_runner.py: the CSV backtest     *)
(*                (apply_partial_target_weights, force_cash_non_negative). *)
(*  SpecPartial   one call of apply_partial_target_weights on any         *)
(*                snapshot, price vector and partial weights.              *)
(*  SpecThreads   the per-ticker worker threads of                         *)
(*                run_batch5_multithreaded writing the ledger file.        *)
(*  SpecLongOnly  the rebalances of both engines (SpecRebalance,           *)
(*                SpecPartial, SpecCsv) from any starting state.           *)
(*  SpecFusion    black_litterman (both implementations) applied to      *)
(*                bounded covariances, market weights and views.           *)
(*  SpecWindows   the look-back windows of the CSV backtest and of         *)
(*                fetch_returns_matrix on a list of trading dates.         *)
(*  SpecSnapshots the writers of the daily snapshot file: _snapshot, the   *)
(*                snapshot blocks of run_batch5_multithreaded and          *)
(*                update_metrics_for_date.                                 *)
(*  SpecDates     main() of mvo_blm_runner.py called with --dates.        *)
(*  SpecReprice   update_snapshot_prices on any snapshot and prices.      *)
(*  SpecEstimate  cov_mu_from_returns, covariance_from_returns and the     *)
(*                estimates of run() on bounded return matrices.           *)
(*  SpecSharpe    rolling_sharpe and the rolling Sharpe of the snapshot    *)
(*                writers on bounded return series.                        *)
(*                                                                         *)
(* Money is counted in whole currency units and prices are integers;       *)
(* ratios (weights, entry prices) are exact fractions.                     *)
(***************************************************************************)
EXTENDS Integers, Sequences, FiniteSets, TLC

VARIABLES
    optIn,      \* SpecOpt: the arguments of the optimizer call
    optOut,     \* SpecOpt: the results of the two implementations
    data,       \* the ledger file portfolio.json: [portfolio, liquid]
    pre,        \* the ledger as it was before the last operation
    lastOp,     \* the last operation applied to the ledger and its inputs
    csvSnapshot, \* CSV backtest: the snapshot carried from day to day
    preSnap,    \* CSV backtest: the snapshot before the last operation
    csvOp,      \* CSV backtest: the last operation, its inputs and results
    csvRun,     \* CSV backtest: start_date and tickers of run()
    run,        \* mvo_blm_runner main(): arguments, schedule, position
    thr,        \* the worker threads of one day and the ledger file they share
    steps,      \* number of operations applied so far
    entry       \* the entry point being run

optVars == <<optIn, optOut>>
ledgerVars == <<data, pre, lastOp>>
csvVars == <<csvSnapshot, preSnap, csvOp, csvRun>>

vars == <<optIn, optOut, data, pre, lastOp, csvSnapshot, preSnap, csvOp, csvRun,
          run, thr, steps, entry>>

Tickers == {"A", "B"}

(* universe order of the tickers (the order of the tickers file) *)
Universe == <<"A", "B">>

----------------------------------------------------------------------------
(* Arithmetic helpers *)

Abs(x) == IF x < 0 THEN -x ELSE x
Max(a, b) == IF a >= b THEN a ELSE b
Min(a, b) == IF a <= b THEN a ELSE b

RECURSIVE GCD(_, _)
GCD(a, b) == IF b = 0 THEN a ELSE GCD(b, a % b)

RECURSIVE SumSeq(_)
SumSeq(s) == IF s = <<>> THEN 0 ELSE Head(s) + SumSeq(Tail(s))

(* floor of a / b for b > 0: \div rounds towards minus infinity *)
FloorDiv(a, b) == a \div b

(* ceil of a / b for b > 0 *)
CeilDiv(a, b) == -((-a) \div b)

(* int(x) of Python for x = a / b, b > 0: truncation towards zero *)
TruncDiv(a, b) == IF a >= 0 THEN a \div b ELSE -((-a) \div b)

(* an exact fraction n / d, d > 0, in lowest terms *)
Frac(n, d) ==
    LET g == GCD(Abs(n), Abs(d))
        s == IF d < 0 THEN -1 ELSE 1
    IN  IF n = 0 THEN [n |-> 0, d |-> 1]
        ELSE [n |-> s * (n \div g), d |-> s * (d \div g)]

ZeroFrac == [n |-> 0, d |-> 1]
IntFrac(k) == [n |-> k, d |-> 1]

----------------------------------------------------------------------------
(* Optimizer: src/tradingagents/agents/managers/MVO_BLM/mvo.py and          *)
(* src/testing/mvo/optimizer.py                                             *)

MaxMu == 2
MaxVar == 2

(* mean vectors of length n with integer entries *)
MuSet(n) == [1..n -> -MaxMu..MaxMu]

(* symmetric positive semi-definite covariance matrices, singular ones     *)
(* (zero determinant, zero matrix) included                                *)
CovSet(n) ==
    IF n = 1 THEN {<<<<a>>>> : a \in 0..MaxVar}
    ELSE {<<<<c[1], c[2]>>, <<c[2], c[3]>>>> :
            c \in {x \in (0..MaxVar) \X (-MaxVar..MaxVar) \X (0..MaxVar) :
                     x[1] * x[3] >= x[2] * x[2]}}

(* np.linalg.pinv(cov) . mu for a symmetric PSD matrix of order 1 or 2, as *)
(* numerators over one positive denominator: the inverse when the          *)
(* determinant is not 0, A / trace(A)^2 for a rank-1 matrix, 0 for the     *)
(* zero matrix                                                             *)
PinvDot(cov, mu) ==
    IF Len(mu) = 1 THEN
        IF cov[1][1] = 0 THEN [num |-> <<0>>, den |-> 1]
        ELSE [num |-> <<mu[1]>>, den |-> cov[1][1]]
    ELSE
        LET a == cov[1][1]
            b == cov[1][2]
            c == cov[2][2]
            det == a * c - b * b
            tr == a + c
        IN  IF det # 0 THEN
                [num |-> <<c * mu[1] - b * mu[2], a * mu[2] - b * mu[1]>>,
                 den |-> det]
            ELSE IF tr # 0 THEN
                [num |-> <<a * mu[1] + b * mu[2], b * mu[1] + c * mu[2]>>,
                 den |-> tr * tr]
            ELSE [num |-> <<0, 0>>, den |-> 1]

(* np.clip(w, 0, None) / np.maximum(w, 0.0) *)
Clip(num) == [i \in 1..Len(num) |-> Max(num[i], 0)]

Ones(n) == [i \in 1..n |-> 1]

RECURSIVE GCDSeq(_)
GCDSeq(s) == IF s = <<>> THEN 0 ELSE GCD(Abs(Head(s)), GCDSeq(Tail(s)))

(* the weight vector w / s as num[i] / den with den > 0, in lowest terms *)
Weights(w, s) ==
    LET g == GCD(GCDSeq(w), Abs(s))
        sg == IF s < 0 THEN -1 ELSE 1
    IN  [num |-> [i \in 1..Len(w) |-> sg * (w[i] \div g)], den |-> sg * (s \div g)]

(* faulty variant of mean_variance_optimize: no equal-weight fallback, the *)
(* clipped vector is returned as it is when its sum is 0                    *)
mean_variance_optimize_NoFallback(mu, cov, long_only) ==
    LET raw == PinvDot(cov, mu)
        w == IF long_only THEN Clip(raw.num) ELSE raw.num
        s == SumSeq(w)
    IN  IF s = 0 THEN [num |-> w, den |-> 1] ELSE Weights(w, s)

(* mvo.py: w = pinv(cov).mu; clip when long_only; s == 0 -> ones(n)/n;     *)
(* else w / s                                                              *)
mean_variance_optimize(mu, cov, long_only) ==
    LET raw == PinvDot(cov, mu)
        w == IF long_only THEN Clip(raw.num) ELSE raw.num
        s == SumSeq(w)
    IN  IF s = 0 THEN [num |-> Ones(Len(mu)), den |-> Len(mu)]
        ELSE Weights(w, s)

(* testing/mvo/optimizer.py: raw = (1/risk_aversion) pinv(cov) mu; clip    *)
(* when long_only; s > 0 -> raw / s, otherwise ones(n)/n.  risk_aversion   *)
(* is positive and cancels in raw / s.                                     *)
optimizer_mean_variance_optimize(mu, cov, long_only) ==
    LET raw == PinvDot(cov, mu)
        w == IF long_only THEN Clip(raw.num) ELSE raw.num
        s == SumSeq(w)
    IN  IF s > 0 THEN Weights(w, s)
        ELSE [num |-> Ones(Len(mu)), den |-> Len(mu)]

NoOpt == [n |-> 0]

OptInputs ==
    {[n |-> n, mu |-> mu, cov |-> cov, long_only |-> lo] :
        n \in {1}, mu \in MuSet(1), cov \in CovSet(1), lo \in BOOLEAN}
    \cup
    {[n |-> n, mu |-> mu, cov |-> cov, long_only |-> lo] :
        n \in {2}, mu \in MuSet(2), cov \in CovSet(2), lo \in BOOLEAN}

EmptyLedger == [portfolio |-> <<>>, liquid |-> 0]

NoOp == [op |-> "none"]

(* the parts of the state a specification does not use *)
IdleOpt == optIn = NoOpt /\ optOut = NoOpt
IdleLedger == data = EmptyLedger /\ pre = EmptyLedger /\ lastOp = NoOp
IdleCsv ==
    csvSnapshot = EmptyLedger /\ preSnap = EmptyLedger /\ csvOp = NoOp /\ csvRun = NoOp
IdleRun == run = NoOp
IdleThr == thr = NoOp

InitOpt ==
    /\ entry = "optimize"
    /\ optIn \in OptInputs
    /\ optOut = NoOpt
    /\ IdleLedger
    /\ IdleCsv
    /\ IdleRun
    /\ IdleThr
    /\ steps = 0

Optimize ==
    /\ entry = "optimize"
    /\ optOut = NoOpt
    /\ optOut' = [n |-> optIn.n,
                  mvo |-> mean_variance_optimize(optIn.mu, optIn.cov, optIn.long_only),
                  tst |-> optimizer_mean_variance_optimize(optIn.mu, optIn.cov, optIn.long_only)]
    /\ UNCHANGED <<optIn, ledgerVars, csvVars, run, thr, steps, entry>>

NextOpt == Optimize

SpecOpt == InitOpt /\ [][NextOpt]_vars

----------------------------------------------------------------------------
(* Black-Litterman fusion: src/tradingagents/agents/managers/MVO_BLM/blm.py *)
(* and src/testing/mvo/optimizer.py                                         *)

MaxWeight == 2
MaxView == 1

(* a view of q stands for an expected return of q / ViewDen (0.02 units) *)
ViewDen == 50
(* blm.py: risk_aversion = 3.0, 1 / omega_scale = 2 *)
BlmRiskAversion == 3
BlmOmegaInv == 2
(* testing: risk_aversion = 5.0 passed by run(), 1 / tau = 20 *)
TestingRiskAversion == 5
TestingTauInv == 20

TickersOf(n) == {Universe[i] : i \in 1..n}

(* views: a value for some of the tickers, none of them for the empty set *)
ViewSets(n) == UNION {[S -> -MaxView..MaxView] : S \in SUBSET TickersOf(n)}

Det(cov) ==
    IF Len(cov) = 1 THEN cov[1][1]
    ELSE cov[1][1] * cov[2][2] - cov[1][2] * cov[2][1]

(* risk_aversion * cov . w, with w = w.num / w.den *)
ImpliedReturns(cov, ra, w) ==
    [num |-> [i \in 1..Len(cov) |->
                ra * SumSeq([j \in 1..Len(cov) |-> cov[i][j] * w.num[j]])],
     den |-> w.den]

(* inv(inv(cov) + k D) . (ra w + k D q) for an invertible cov of order 1 or *)
(* 2, D = diag(s[i] / cov[i][i]), q in units of 1 / ViewDen; numerators     *)
(* over one positive denominator                                            *)
Posterior(cov, ra, w, k, s, q) ==
    IF Len(cov) = 1 THEN
        [num |-> <<cov[1][1] * ra * w.num[1] * ViewDen + k * s[1] * q[1] * w.den>>,
         den |-> (1 + k * s[1]) * w.den * ViewDen]
    ELSE
        LET a == cov[1][1]
            b == cov[1][2]
            c == cov[2][2]
            det == a * c - b * b
            m11 == a * c * c + k * det * s[1] * c
            m12 == -(a * c * b)
            m22 == a * c * a + k * det * s[2] * a
            r1 == a * c * ra * w.num[1] * ViewDen + k * w.den * s[1] * c * q[1]
            r2 == a * c * ra * w.num[2] * ViewDen + k * w.den * s[2] * a * q[2]
        IN  [num |-> <<det * (m22 * r1 - m12 * r2), det * (m11 * r2 - m12 * r1)>>,
             den |-> (m11 * m22 - m12 * m12) * w.den * ViewDen]

(* blm.py black_litterman(cov, market_weights, views, tickers): market      *)
(* weights normalised by their sum, Q[i] = views.get(t, 0.0), P = I;        *)
(* np.linalg.inv raises LinAlgError on a singular tau * cov or omega        *)
black_litterman(cov, market_weights, views, tickers) ==
    LET n == Len(tickers)
        sum == SumSeq(market_weights)
        w_mkt == [num |-> market_weights, den |-> IF sum # 0 THEN sum ELSE 1]
        pi == ImpliedReturns(cov, BlmRiskAversion, w_mkt)
        Q == [i \in 1..n |-> IF tickers[i] \in DOMAIN views THEN views[tickers[i]] ELSE 0]
    IN  IF Det(cov) = 0 THEN [raised |-> TRUE, mu_bl |-> pi, pi |-> pi]
        ELSE [raised |-> FALSE,
              mu_bl |-> Posterior(cov, BlmRiskAversion, w_mkt, BlmOmegaInv,
                                  [i \in 1..n |-> 1], Q),
              pi |-> pi]

(* optimizer.py black_litterman(market_weights, covariance, risk_aversion,  *)
(* P, Q, tau): P has a one-hot row for every ticker with a view; P.size ==  *)
(* 0 returns pi. With views, the posterior for an invertible covariance,    *)
(* and Q for the zero covariance of order 1 (pinv(0) = 0, Omega = 1e-8).    *)
optimizer_black_litterman(market_weights, covariance, views, tickers) ==
    LET n == Len(tickers)
        w == [num |-> market_weights, den |-> 1]
        pi == ImpliedReturns(covariance, TestingRiskAversion, w)
        sel == [i \in 1..n |-> IF tickers[i] \in DOMAIN views THEN 1 ELSE 0]
        Q == [i \in 1..n |-> IF tickers[i] \in DOMAIN views THEN views[tickers[i]] ELSE 0]
    IN  IF DOMAIN views = {} THEN [mu_bl |-> pi, pi |-> pi]
        ELSE IF Det(covariance) = 0 THEN
            [mu_bl |-> [num |-> Q, den |-> ViewDen], pi |-> pi]
        ELSE [mu_bl |-> Posterior(covariance, TestingRiskAversion, w, TestingTauInv,
                                  sel, Q),
              pi |-> pi]

(* the calls checked: with views, a singular covariance only of order 1 *)
FusionInputs ==
    {[n |-> 1, cov |-> cov, market_weights |-> w, views |-> v] :
        cov \in CovSet(1), w \in [1..1 -> 0..MaxWeight], v \in ViewSets(1)}
    \cup
    {x \in {[n |-> 2, cov |-> cov, market_weights |-> w, views |-> v] :
              cov \in CovSet(2), w \in [1..2 -> 0..MaxWeight], v \in ViewSets(2)} :
        DOMAIN x.views = {} \/ Det(x.cov) # 0}

InitFusion ==
    /\ entry = "fusion"
    /\ optIn \in FusionInputs
    /\ optOut = NoOpt
    /\ IdleLedger
    /\ IdleCsv
    /\ IdleRun
    /\ IdleThr
    /\ steps = 0

Fuse ==
    /\ entry = "fusion"
    /\ optOut = NoOpt
    /\ optOut' = [n |-> optIn.n,
                  blm |-> black_litterman(optIn.cov, optIn.market_weights, optIn.views,
                                          SubSeq(Universe, 1, optIn.n)),
                  tst |-> optimizer_black_litterman(optIn.market_weights, optIn.cov,
                                                    optIn.views,
                                                    SubSeq(Universe, 1, optIn.n))]
    /\ UNCHANGED <<optIn, ledgerVars, csvVars, run, thr, steps, entry>>

NextFusion == Fuse

SpecFusion == InitFusion /\ [][NextFusion]_vars

----------------------------------------------------------------------------
(* The returns estimators: cov_mu_from_returns of MVO_BLM/data_utils.py and *)
(* covariance_from_returns with the estimates of run() in                   *)
(* src/testing/mvo_blm_runner.py                                            *)

MaxRows == 2
MaxReturn == 3

(* a return is an integer number of hundredths *)
TradingDays == 252
ClipHundredths == 2

(* a covariance is [n, nan, num, den, ridge]: the n x n matrix              *)
(* num / den + ridge * 1e-8 * I, every entry NaN when nan; a mean vector is *)
(* [num, den]                                                               *)
EyeMatrix(n) == [i \in 1..n |-> [j \in 1..n |-> IF i = j THEN 1 ELSE 0]]

(* np.eye(n) * 1e-4 *)
SmallDiagonal(n) == [n |-> n, nan |-> FALSE, num |-> EyeMatrix(n), den |-> 10000, ridge |-> 0]

ColumnSum(returns, j) == SumSeq([t \in 1..Len(returns) |-> returns[t][j]])

(* np.cov of T >= 2 observations of n variables, ddof = 1, times scale:     *)
(* sum_t (T x_ti - S_i)(T x_tj - S_j) / (T^2 (T - 1)) in squared hundredths *)
SampleCov(returns, n, scale) ==
    LET T == Len(returns)
        dev(t, i) == T * returns[t][i] - ColumnSum(returns, i)
    IN  [n |-> n, nan |-> FALSE,
         num |-> [i \in 1..n |-> [j \in 1..n |->
                    scale * SumSeq([t \in 1..T |-> dev(t, i) * dev(t, j)])]],
         den |-> T * T * (T - 1) * 10000,
         ridge |-> 0]

(* data_utils.py cov_mu_from_returns(returns), returns of shape (T, n):     *)
(* empty arrays for an empty matrix; np.cov of a single observation divides *)
(* by T - 1 = 0 and is NaN                                                  *)
cov_mu_from_returns(returns, n) ==
    LET T == Len(returns)
    IN  IF T * n = 0
        THEN [cov |-> [n |-> 0, nan |-> FALSE, num |-> <<>>, den |-> 1, ridge |-> 0],
              mu |-> [num |-> <<>>, den |-> 1]]
        ELSE [cov |-> IF T = 1
                      THEN [n |-> n, nan |-> TRUE, num |-> EyeMatrix(n), den |-> 1,
                            ridge |-> 0]
                      ELSE SampleCov(returns, n, TradingDays),
              mu |-> [num |-> [j \in 1..n |-> TradingDays * ColumnSum(returns, j)],
                      den |-> T * 100]]

(* testing/mvo_blm_runner.py covariance_from_returns(returns) *)
covariance_from_returns(returns, n) ==
    IF Len(returns) < 2 THEN SmallDiagonal(n)
    ELSE [SampleCov(returns, n, 1) EXCEPT !.ridge = 1]

(* run() lines 144-152: mu_hist and the shrunk covariance                   *)
(* 0.9 * cov + 0.1 * mean(diag(cov)) * I                                    *)
hist_estimates(returns, n) ==
    LET T == Len(returns)
        c == covariance_from_returns(returns, n)
        trace == SumSeq([i \in 1..n |-> c.num[i][i]])
    IN  IF T > 0
        THEN [cov |-> [c EXCEPT
                        !.num = [i \in 1..n |-> [j \in 1..n |->
                                    9 * n * c.num[i][j] + (IF i = j THEN trace ELSE 0)]],
                        !.den = 10 * n * c.den],
              mu |-> [num |-> [j \in 1..n |->
                                  Max(-ClipHundredths * T,
                                      Min(ClipHundredths * T, ColumnSum(returns, j)))],
                      den |-> T * 100]]
        ELSE [cov |-> SmallDiagonal(n), mu |-> [num |-> [j \in 1..n |-> 0], den |-> 1]]

(* the return matrices: up to MaxRows rows for one or two tickers *)
ReturnsInputs ==
    UNION {{[n |-> n, returns |-> r] :
                r \in [1..T -> [1..n -> -MaxReturn..MaxReturn]]} :
           n \in 1..2, T \in 0..MaxRows}

InitEstimate ==
    /\ entry = "estimate"
    /\ IdleLedger
    /\ IdleCsv
    /\ IdleRun
    /\ IdleThr
    /\ optIn \in ReturnsInputs
    /\ optOut = NoOpt
    /\ steps = 0

Estimate ==
    /\ entry = "estimate"
    /\ optOut = NoOpt
    /\ optOut' = [n |-> optIn.n,
                  prod |-> cov_mu_from_returns(optIn.returns, optIn.n),
                  hist |-> hist_estimates(optIn.returns, optIn.n)]
    /\ UNCHANGED <<optIn, ledgerVars, csvVars, run, thr, steps, entry>>

SpecEstimate == InitEstimate /\ [][Estimate]_vars

----------------------------------------------------------------------------
(* Rolling Sharpe: rolling_sharpe of src/testing/mvo/metrics.py and the     *)
(* rolling_sharpe that update_metrics_for_date (metrics_manager.py) and     *)
(* compute_backtest_statistics (testingLoopMultithreaded.py) write into the *)
(* daily snapshots                                                          *)

MaxSeries == 4
MaxWindow == 3

NaN == [nan |-> TRUE, sgn |-> 0, sq |-> ZeroFrac]

(* sum of the squared deviations of w from its mean, times Len(w)^2 *)
SqDev(w) ==
    LET n == Len(w)
        S == SumSeq(w)
    IN  SumSeq([t \in 1..n |-> (n * w[t] - S) * (n * w[t] - S)])

(* metrics.py rolling_sharpe(returns, window): at index i the slice         *)
(* r[max(0, i - window + 1) : i + 1]; the value mean / std(ddof = 1) *      *)
(* sqrt(252) is kept as its sign and its square 252 (n - 1) S^2 / SqDev     *)
rolling_sharpe(returns, window) ==
    [i \in 1..Len(returns) |->
        LET w == SubSeq(returns, Max(1, i - window + 1), i)
            n == Len(w)
            S == SumSeq(w)
        IN  IF n < 2 \/ SqDev(w) <= 0 THEN NaN
            ELSE [nan |-> FALSE,
                  sgn |-> IF S > 0 THEN 1 ELSE IF S < 0 THEN -1 ELSE 0,
                  sq |-> Frac(TradingDays * (n - 1) * S * S, SqDev(w))]]

(* metrics_manager.py lines 84-104 and testingLoopMultithreaded.py lines    *)
(* 1033-1051: series grows by one return per day and the value written for  *)
(* day i is mean_r / (std_r + EPSILON) over the whole of series, with       *)
(* var_r = sum (x - mean_r)^2 / max(len(series) - 1, 1); returns are        *)
(* hundredths                                                               *)
snapshot_rolling_sharpe(daily_returns) ==
    [i \in 1..Len(daily_returns) |->
        LET series == SubSeq(daily_returns, 1, i)
            n == Len(series)
        IN  [nan |-> FALSE,
             mean_r |-> Frac(SumSeq(series), 100 * n),
             var_r |-> Frac(SqDev(series), n * n * Max(n - 1, 1) * 10000)]]

(* daily_returns of the snapshot writers: 0.0 on the first day *)
FirstDayZero(returns) == [i \in 1..Len(returns) |-> IF i = 1 THEN 0 ELSE returns[i]]

SharpeInputs ==
    UNION {{[returns |-> r, window |-> W] : r \in [1..n -> -MaxReturn..MaxReturn]} :
           n \in 0..MaxSeries, W \in 1..MaxWindow}

InitSharpe ==
    /\ entry = "sharpe"
    /\ IdleLedger
    /\ IdleCsv
    /\ IdleRun
    /\ IdleThr
    /\ optIn \in SharpeInputs
    /\ optOut = NoOpt
    /\ steps = 0

ComputeSharpe ==
    /\ entry = "sharpe"
    /\ optOut = NoOpt
    /\ optOut' = [n |-> Len(optIn.returns),
                  sharpe |-> rolling_sharpe(optIn.returns, optIn.window),
                  snapshots |-> snapshot_rolling_sharpe(FirstDayZero(optIn.returns))]
    /\ UNCHANGED <<optIn, ledgerVars, csvVars, run, thr, steps, entry>>

SpecSharpe == InitSharpe /\ [][ComputeSharpe]_vars

----------------------------------------------------------------------------
(* Ledger: src/tradingagents/agents/managers/MVO_BLM/pipeline.py and        *)
(* src/mvo_blm_runner.py                                                    *)

MaxPrice == 2
MaxSteps == 2

(* ledger written when portfolio.json is absent *)
InitialLiquid == 1000000

(* portfolio_value used by size_positions when the ledger is worth <= 0 *)
DefaultPortfolioValue == 1000000

Decisions == {"BUY", "SELL", "HOLD"}

(* holdings.get(sym, {"totalAmount": 0}); missing keys read as 0 *)
NoHolding == [totalAmount |-> 0, last_price |-> 0, entry_price |-> ZeroFrac]

Get(portfolio, sym) ==
    IF sym \in DOMAIN portfolio THEN portfolio[sym] ELSE NoHolding

Put(portfolio, sym, h) ==
    [t \in (DOMAIN portfolio) \cup {sym} |-> IF t = sym THEN h ELSE portfolio[t]]

Remove(portfolio, syms) ==
    [t \in (DOMAIN portfolio) \ syms |-> portfolio[t]]

Qty(portfolio, sym) == Get(portfolio, sym).totalAmount

(* faulty variant of Vwap: the entry price follows the last buy *)
Vwap_LastPrice(e, q, p, b) == IntFrac(p)

(* the volume-weighted average (e * q + p * b) / (q + b) *)
Vwap(e, q, p, b) == Frac(e.n * q + p * b * e.d, e.d * (q + b))

RECURSIVE SumOver(_, _)
SumOver(S, f) ==
    IF S = {} THEN 0
    ELSE LET x == CHOOSE y \in S : TRUE IN f[x] + SumOver(S \ {x}, f)

(* mean_variance_optimize(mu_bl, cov_bl, long_only=True) for one asset *)
WeightChoices1 ==
    {mean_variance_optimize(mu, <<<<1>>>>, TRUE) : mu \in MuSet(1)}

(* ... and for two assets (posterior covariance: the identity) *)
WeightChoices2 ==
    {mean_variance_optimize(mu, <<<<1, 0>>, <<0, 1>>>>, TRUE) : mu \in MuSet(2)}

(* the tickers fetch_returns_matrix keeps, in universe order *)
ColsChoices == {<<>>, <<"A">>, <<"B">>, <<"A", "B">>}

IndexOf(seq, x) == CHOOSE i \in 1..Len(seq) : seq[i] = x

(* faulty variant of SizeOne: a SELL is sized by the optimizer weight like *)
(* any other decision                                                      *)
SizeOne_SellByWeight(ledger, decisions, prices, t, wnum, wden, portfolio_value) ==
    LET price == prices[t]
        target_qty == Max(0, FloorDiv(Max(0, wnum) * portfolio_value, wden * price))
        curr_qty == Qty(ledger.portfolio, t)
        delta == IF curr_qty > 0 THEN target_qty - curr_qty
                 ELSE IF decisions[t] \in {"BUY", "HOLD"}
                      THEN Max(0, IF target_qty > 0 THEN target_qty ELSE 1)
                      ELSE 0
    IN  [sym |-> t, delta_shares |-> delta, target_qty |-> target_qty,
         current_qty |-> curr_qty, price |-> price]

(* pipeline.py size_positions, loop body for ticker t of tickers_aligned *)
SizeOne(ledger, decisions, prices, t, wnum, wden, portfolio_value) ==
    LET price == prices[t]
        target_qty0 == Max(0, FloorDiv(Max(0, wnum) * portfolio_value, wden * price))
        curr_qty == Qty(ledger.portfolio, t)
        decision == decisions[t]
        target_qty == IF decision = "SELL" THEN 0 ELSE target_qty0
        delta ==
            IF curr_qty > 0 THEN
                IF decision = "SELL" THEN -curr_qty ELSE target_qty - curr_qty
            ELSE
                IF decision \in {"BUY", "HOLD"} THEN
                    Max(0, IF target_qty > 0 THEN target_qty ELSE 1)
                ELSE IF curr_qty < 0 THEN -curr_qty ELSE 0
    IN  [sym |-> t, delta_shares |-> delta, target_qty |-> target_qty,
         current_qty |-> curr_qty, price |-> price]

RECURSIVE SizeLoop(_, _, _, _, _, _, _)
SizeLoop(ledger, decisions, prices, cols, w, pv, i) ==
    IF i > Len(cols) THEN <<>>
    ELSE LET rest == SizeLoop(ledger, decisions, prices, cols, w, pv, i + 1)
         IN  IF prices[cols[i]] <= 0 THEN rest
             ELSE <<SizeOne(ledger, decisions, prices, cols[i], w.num[i], w.den, pv)>>
                  \o rest

(* pipeline.py size_positions: the trades, in tickers_aligned order *)
size_positions(ledger, decisions, prices, cols, w) ==
    IF cols = <<>> THEN <<>>
    ELSE LET current_value ==
                 SumSeq([i \in 1..Len(cols) |->
                            Qty(ledger.portfolio, cols[i]) * prices[cols[i]]])
             pv0 == ledger.liquid + current_value
             pv == IF pv0 <= 0 THEN DefaultPortfolioValue ELSE pv0
         IN  SizeLoop(ledger, decisions, prices, cols, w, pv, 1)

(* faulty variant of ExecOne: a buy is filled for the requested shares     *)
(* whatever the cash at hand                                               *)
ExecOne_Uncapped(d, tr) ==
    LET price == tr.price
        holdings == Get(d.portfolio, tr.sym)
        current_qty == holdings.totalAmount
        target_qty == Max(0, tr.target_qty)
        delta == target_qty - current_qty
        sell_qty == Min(Abs(delta), Max(0, current_qty))
    IN  IF price <= 0 THEN d
        ELSE IF delta > 0 THEN
            [portfolio |->
                Put(d.portfolio, tr.sym,
                    [totalAmount |-> current_qty + delta,
                     last_price |-> price,
                     entry_price |->
                        IF current_qty > 0 /\ holdings.entry_price.n > 0
                        THEN Vwap(holdings.entry_price, current_qty, price, delta)
                        ELSE IntFrac(price)]),
             liquid |-> d.liquid - delta * price]
        ELSE IF delta < 0 THEN
            [portfolio |->
                Put(d.portfolio, tr.sym,
                    [totalAmount |-> current_qty - sell_qty,
                     last_price |-> price,
                     entry_price |-> IF current_qty - sell_qty = 0 THEN ZeroFrac
                                     ELSE holdings.entry_price]),
             liquid |-> d.liquid + sell_qty * price]
        ELSE
            [d EXCEPT !.portfolio =
                Put(d.portfolio, tr.sym, [holdings EXCEPT !.last_price = price])]

(* mvo_blm_runner.py _execute_trades_long_only, loop body *)
ExecOne(d, tr) ==
    LET price == tr.price
        holdings == Get(d.portfolio, tr.sym)
        current_qty == holdings.totalAmount
        target_qty == Max(0, tr.target_qty)
        delta == target_qty - current_qty
        max_affordable == FloorDiv(d.liquid, price)
        buy_qty == Min(delta, max_affordable)
        sell_qty == Min(Abs(delta), Max(0, current_qty))
    IN  IF price <= 0 THEN d
        ELSE IF delta > 0 THEN
            IF buy_qty <= 0 THEN
                [d EXCEPT !.portfolio =
                    Put(d.portfolio, tr.sym, [holdings EXCEPT !.last_price = price])]
            ELSE
                [portfolio |->
                    Put(d.portfolio, tr.sym,
                        [totalAmount |-> current_qty + buy_qty,
                         last_price |-> price,
                         entry_price |->
                            IF current_qty > 0 /\ holdings.entry_price.n > 0
                            THEN Vwap(holdings.entry_price, current_qty, price, buy_qty)
                            ELSE IntFrac(price)]),
                 liquid |-> d.liquid - buy_qty * price]
        ELSE IF delta < 0 THEN
            [portfolio |->
                Put(d.portfolio, tr.sym,
                    [totalAmount |-> current_qty - sell_qty,
                     last_price |-> price,
                     entry_price |-> IF current_qty - sell_qty = 0 THEN ZeroFrac
                                     ELSE holdings.entry_price]),
             liquid |-> d.liquid + sell_qty * price]
        ELSE
            [d EXCEPT !.portfolio =
                Put(d.portfolio, tr.sym, [holdings EXCEPT !.last_price = price])]

RECURSIVE ExecLoop(_, _)
ExecLoop(d, trades) ==
    IF trades = <<>> THEN d
    ELSE ExecLoop(ExecOne(d, Head(trades)), Tail(trades))

(* mvo_blm_runner.py _execute_trades_long_only: the ledger written back *)
_execute_trades_long_only(trades, d) == ExecLoop(d, trades)

Holding(q, p, e) == [totalAmount |-> q, last_price |-> p, entry_price |-> IntFrac(e)]

(* ledgers a run can start from: the default one and ledgers left by       *)
(* earlier runs                                                            *)
StartLedgers ==
    { [portfolio |-> <<>>, liquid |-> InitialLiquid],
      [portfolio |-> <<>>, liquid |-> 3],
      [portfolio |-> [t \in {"A"} |-> Holding(2, 1, 1)], liquid |-> 1],
      [portfolio |-> [t \in {"A", "B"} |-> IF t = "A" THEN Holding(3, 2, 1)
                                            ELSE Holding(0, 1, 0)],
       liquid |-> 0],
      [portfolio |-> [t \in {"B"} |-> Holding(1, 2, 2)], liquid |-> 5] }

InitRebalance ==
    /\ entry = "rebalance"
    /\ IdleOpt
    /\ IdleCsv
    /\ IdleRun
    /\ IdleThr
    /\ data \in StartLedgers
    /\ pre = data
    /\ lastOp = NoOp
    /\ steps = 0

(* one rebalance: size_positions, then _execute_trades_long_only *)
Rebalance ==
    /\ entry = "rebalance"
    /\ steps < MaxSteps
    /\ \E decisions \in [Tickers -> Decisions], prices \in [Tickers -> 0..MaxPrice],
          cols \in ColsChoices :
         \E w \in (IF Len(cols) = 2 THEN WeightChoices2 ELSE WeightChoices1) :
            LET trades == size_positions(data, decisions, prices, cols, w)
            IN  /\ data' = _execute_trades_long_only(trades, data)
                /\ lastOp' = [op |-> "rebalance", decisions |-> decisions,
                              prices |-> prices, cols |-> cols, w |-> w,
                              trades |-> trades]
    /\ pre' = data
    /\ steps' = steps + 1
    /\ UNCHANGED <<optVars, csvVars, run, thr, entry>>

NextRebalance == Rebalance

SpecRebalance == InitRebalance /\ [][NextRebalance]_vars

----------------------------------------------------------------------------
(* CSV backtest ledger: src/testing/mvo/portfolio.py                        *)
(*                                                                         *)
(* A snapshot is [portfolio, keys, cash, has_cash, liquid, has_liquid,     *)
(* net_liquidation]: keys is the insertion order of the portfolio dict,    *)
(* has_cash / has_liquid tell whether the JSON document has the key, and   *)
(* net_liquidation stands for the three equal derived totals               *)
(* (portfolio_value, net_liquidation, buying_power).                       *)

CashOf(snapshot) == IF snapshot.has_cash THEN snapshot.cash ELSE 0

(* {"portfolio": ..., "cash": ...} as built inside portfolio.py *)
MkSnapshot(portfolio, keys, cash) ==
    [portfolio |-> portfolio, keys |-> keys, cash |-> cash, has_cash |-> TRUE,
     liquid |-> 0, has_liquid |-> FALSE, net_liquidation |-> 0]

compute_market_value(snapshot) ==
    SumOver(DOMAIN snapshot.portfolio,
            [t \in DOMAIN snapshot.portfolio |->
                snapshot.portfolio[t].totalAmount * snapshot.portfolio[t].last_price])

update_snapshot_prices(snapshot, prices) ==
    LET pf == [t \in DOMAIN snapshot.portfolio |->
                 IF t \in DOMAIN prices
                 THEN [snapshot.portfolio[t] EXCEPT !.last_price = prices[t]]
                 ELSE snapshot.portfolio[t]]
        repriced == [snapshot EXCEPT !.portfolio = pf]
        cash == CashOf(snapshot)
    IN  [repriced EXCEPT !.net_liquidation = compute_market_value(repriced) + cash,
                         !.liquid = cash,
                         !.has_liquid = TRUE]

(* prices.get(t, portfolio.get(t, {}).get("last_price", 0.0)) *)
PxOf(prices, portfolio, t) ==
    IF t \in DOMAIN prices THEN prices[t] ELSE Get(portfolio, t).last_price

RemoveKeys(keys, gone) == SelectSeq(keys, LAMBDA t : t \notin gone)

(* del portfolio[t] for every t with totalAmount <= 0 *)
DropFlat(st) ==
    LET gone == {t \in DOMAIN st.portfolio : st.portfolio[t].totalAmount <= 0}
    IN  [st EXCEPT !.portfolio = Remove(st.portfolio, gone),
                   !.keys = RemoveKeys(st.keys, gone)]

(* list.sort(key=..., reverse=True) on records whose key is the field val: *)
(* stable, descending                                                      *)
RECURSIVE InsertDesc(_, _)
InsertDesc(x, sorted) ==
    IF sorted = <<>> THEN <<x>>
    ELSE IF Head(sorted).val >= x.val
         THEN <<Head(sorted)>> \o InsertDesc(x, Tail(sorted))
         ELSE <<x>> \o sorted

(* faulty variant of SortDesc: the candidates stay in dict order *)
SortDesc_DictOrder(seq) == seq

RECURSIVE SortDesc(_)
SortDesc(seq) ==
    IF seq = <<>> THEN <<>>
    ELSE LET n == Len(seq)
         IN  InsertDesc(seq[n], SortDesc(SubSeq(seq, 1, n - 1)))

(* sell candidates of the emergency pass: holdings with quantity > 0 and   *)
(* price > 0, in dict order                                                *)
SellCandidates(st, prices) ==
    LET ok(t) == /\ st.portfolio[t].totalAmount > 0
                 /\ PxOf(prices, st.portfolio, t) > 0
        ks == SelectSeq(st.keys, ok)
    IN  [i \in 1..Len(ks) |->
            [t |-> ks[i], qty |-> st.portfolio[ks[i]].totalAmount,
             px |-> PxOf(prices, st.portfolio, ks[i]),
             val |-> st.portfolio[ks[i]].totalAmount * PxOf(prices, st.portfolio, ks[i])]]

(* the emergency-sell loop over the sorted candidates; st carries          *)
(* portfolio, keys, cash, changes and shortfall                            *)
RECURSIVE EmergencyLoop(_, _)
EmergencyLoop(st, cands) ==
    IF cands = <<>> \/ st.shortfall <= 0 THEN st
    ELSE LET c == Head(cands)
             sell_qty == Min(c.qty, CeilDiv(st.shortfall, c.px))
             prev_q == Qty(st.portfolio, c.t)
             new_q == prev_q - sell_qty
         IN  IF sell_qty <= 0 THEN EmergencyLoop(st, Tail(cands))
             ELSE EmergencyLoop(
                    [st EXCEPT
                        !.portfolio = Put(st.portfolio, c.t,
                            [Get(st.portfolio, c.t) EXCEPT !.totalAmount = new_q,
                                                           !.last_price = c.px]),
                        !.cash = st.cash + sell_qty * c.px,
                        !.shortfall = Max(0, st.shortfall - sell_qty * c.px),
                        !.changes = Append(st.changes, <<c.t, prev_q, new_q>>)],
                    Tail(cands))

(* faulty variant of EmergencySells: the shortfall is raised from the      *)
(* largest position alone, the sale not capped at the quantity held        *)
EmergencySells_Uncapped(st, prices) ==
    LET cands == SortDesc(SellCandidates(st, prices))
        c == Head(cands)
        sell_qty == CeilDiv(-st.cash, c.px)
    IN  IF st.cash >= 0 \/ cands = <<>> THEN st
        ELSE [st EXCEPT
                !.portfolio = Put(st.portfolio, c.t,
                    [Get(st.portfolio, c.t) EXCEPT !.totalAmount = c.qty - sell_qty,
                                                   !.last_price = c.px]),
                !.cash = st.cash + sell_qty * c.px,
                !.changes = Append(st.changes, <<c.t, c.qty, c.qty - sell_qty>>)]

(* portfolio.py lines 252-288: emergency sells when cash is still negative *)
EmergencySells(st, prices) ==
    IF st.cash >= 0 THEN st
    ELSE DropFlat(EmergencyLoop([st EXCEPT !.shortfall = -st.cash],
                                SortDesc(SellCandidates(st, prices))))

(* portfolio.py lines 234-246: unwind one applied buy share by share *)
RECURSIVE UnwindOne(_, _, _, _)
UnwindOne(st, t, bq, px) ==
    IF bq <= 0 \/ st.cash >= 0 \/ Qty(st.portfolio, t) <= 0 THEN st
    ELSE UnwindOne(
            [st EXCEPT
                !.portfolio = Put(st.portfolio, t,
                    [Get(st.portfolio, t) EXCEPT
                        !.totalAmount = Qty(st.portfolio, t) - 1,
                        !.last_price = px]),
                !.cash = st.cash + px],
            t, bq - 1, px)

RECURSIVE UnwindLoop(_, _)
UnwindLoop(st, buys) ==
    IF buys = <<>> \/ st.cash >= 0 THEN st
    ELSE UnwindLoop(UnwindOne(st, Head(buys).t, Head(buys).buy_q, Head(buys).px),
                    Tail(buys))

(* portfolio.py lines 226-250: final guard *)
UnwindBuys(st) ==
    IF st.cash < 0 /\ st.applied_buys # <<>>
    THEN DropFlat(UnwindLoop(st, SortDesc(st.applied_buys)))
    ELSE st

(* faulty variant of ApplyBuys: first come, first served; a buy is filled  *)
(* in full while the budget lasts and the later ones get what is left      *)
RECURSIVE ApplyBuys_FirstCome(_, _, _, _, _)
ApplyBuys_FirstCome(st, reqs, scaled, allow20, total_cost) ==
    IF reqs = <<>> THEN st
    ELSE LET r == Head(reqs)
             buy_q == IF scaled /\ r.px > 0
                      THEN Min(r.need_q, Max(0, FloorDiv(allow20, 20 * r.px)))
                      ELSE r.need_q
             prev_q == Qty(st.portfolio, r.t)
         IN  IF buy_q <= 0
             THEN ApplyBuys_FirstCome(st, Tail(reqs), scaled, allow20, total_cost)
             ELSE ApplyBuys_FirstCome(
                    [st EXCEPT
                        !.portfolio = Put(st.portfolio, r.t,
                            [totalAmount |-> prev_q + buy_q, last_price |-> r.px,
                             entry_price |->
                                IF prev_q > 0
                                THEN Vwap(Get(st.portfolio, r.t).entry_price,
                                          prev_q, r.px, buy_q)
                                ELSE IntFrac(r.px)]),
                        !.keys = IF r.t \in DOMAIN st.portfolio THEN st.keys
                                 ELSE Append(st.keys, r.t),
                        !.cash = st.cash - buy_q * r.px,
                        !.changes = Append(st.changes, <<r.t, prev_q, prev_q + buy_q>>),
                        !.applied_buys = Append(st.applied_buys,
                                                [t |-> r.t, buy_q |-> buy_q, px |-> r.px,
                                                 val |-> buy_q * r.px])],
                    Tail(reqs), scaled, allow20 - 20 * buy_q * r.px, total_cost)

(* portfolio.py lines 203-224: apply the buys with the common scale        *)
(* allowable_budget / total_cost = allow20 / (20 * total_cost)             *)
RECURSIVE ApplyBuys(_, _, _, _, _)
ApplyBuys(st, reqs, scaled, allow20, total_cost) ==
    IF reqs = <<>> THEN st
    ELSE LET r == Head(reqs)
             buy_q == IF scaled THEN TruncDiv(r.need_q * allow20, 20 * total_cost)
                      ELSE r.need_q
             prev_q == Qty(st.portfolio, r.t)
             new_q == prev_q + buy_q
             prev_entry == Get(st.portfolio, r.t).entry_price
         IN  IF buy_q <= 0 THEN ApplyBuys(st, Tail(reqs), scaled, allow20, total_cost)
             ELSE ApplyBuys(
                    [st EXCEPT
                        !.portfolio = Put(st.portfolio, r.t,
                            [totalAmount |-> new_q, last_price |-> r.px,
                             entry_price |-> IF prev_q > 0
                                             THEN Vwap(prev_entry, prev_q, r.px, buy_q)
                                             ELSE IntFrac(r.px)]),
                        !.keys = IF r.t \in DOMAIN st.portfolio THEN st.keys
                                 ELSE Append(st.keys, r.t),
                        !.cash = st.cash - buy_q * r.px,
                        !.changes = Append(st.changes, <<r.t, prev_q, new_q>>),
                        !.applied_buys = Append(st.applied_buys,
                                                [t |-> r.t, buy_q |-> buy_q, px |-> r.px,
                                                 val |-> buy_q * r.px])],
                    Tail(reqs), scaled, allow20, total_cost)

(* faulty variant of EquityGuard: the equity difference is not absorbed *)
EquityGuard_Off(new_snapshot, prices, initial_total_equity) == new_snapshot

(* portfolio.py lines 290-301: absorb the equity difference into cash *)
EquityGuard(new_snapshot, prices, initial_total_equity) ==
    LET after_equity == compute_market_value(new_snapshot) + CashOf(new_snapshot)
        delta == initial_total_equity - after_equity
    IN  IF delta # 0
        THEN update_snapshot_prices(
                [new_snapshot EXCEPT !.cash = CashOf(new_snapshot) + delta], prices)
        ELSE new_snapshot

(* portfolio.py lines 143-162: the equities the targets are computed from *)
PartialEquity(snapshot_prev, prices, sub) ==
    LET temp == update_snapshot_prices(
                    MkSnapshot(snapshot_prev.portfolio, snapshot_prev.keys,
                               CashOf(snapshot_prev)), prices)
    IN  [initial_total_equity |-> compute_market_value(temp) + CashOf(temp),
         total_equity |->
            SumSeq([i \in 1..Len(sub) |->
                       Qty(temp.portfolio, sub[i])
                       * PxOf(prices, snapshot_prev.portfolio, sub[i])])
            + CashOf(snapshot_prev),
         total_portfolio_equity |-> compute_market_value(temp) + CashOf(snapshot_prev)]

(* portfolio.py lines 164-174: target_qty of every ticker of the weights   *)
(* dict; dollars20 is 20 * den * target_dollars[t]                         *)
TargetQty(portfolio_prev, prices, partial, eq) ==
    [t \in DOMAIN partial.num |->
        LET px == PxOf(prices, portfolio_prev, t)
            dollars20 == Min(20 * Max(0, partial.num[t]) * eq.total_equity,
                             partial.den * eq.total_portfolio_equity)
        IN  IF px <= 0 THEN Qty(portfolio_prev, t)
            ELSE FloorDiv(dollars20, 20 * partial.den * px)]

(* portfolio.py lines 290-301 and the return: the snapshot, the change     *)
(* list and the values of the local variables the properties speak about   *)
PartialResult(prices, eq, cash1, buy_reqs, total_cost, allow20, st1, st3) ==
    [snapshot |->
        EquityGuard(update_snapshot_prices(
                        MkSnapshot(st3.portfolio, st3.keys, st3.cash), prices),
                    prices, eq.initial_total_equity),
     changes |-> st3.changes,
     buy_reqs |-> buy_reqs,
     applied_buys |-> st1.applied_buys,
     total_cost |-> total_cost,
     allow20 |-> allow20,
     cash_after_sells |-> cash1,
     total_portfolio_equity |-> eq.total_portfolio_equity]

(* portfolio.py lines 226-288: the final guard and the emergency sells *)
PartialGuards(prices, eq, cash1, buy_reqs, total_cost, allow20, st1) ==
    PartialResult(prices, eq, cash1, buy_reqs, total_cost, allow20, st1,
                  EmergencySells(UnwindBuys(st1), prices))

(* portfolio.py lines 196-224: the budget (allow20 is 20 *                 *)
(* allowable_budget), the scale and the buys                               *)
PartialBuys(snapshot_prev, prices, eq, cash1, changes1, buy_reqs, total_cost) ==
    LET allow20 == Min(20 * cash1, eq.total_portfolio_equity)
    IN  PartialGuards(prices, eq, cash1, buy_reqs, total_cost, allow20,
            ApplyBuys([portfolio |-> snapshot_prev.portfolio,
                       keys |-> snapshot_prev.keys,
                       cash |-> cash1, changes |-> changes1,
                       applied_buys |-> <<>>, shortfall |-> 0],
                      buy_reqs, 20 * total_cost > allow20 /\ total_cost > 0,
                      allow20, total_cost))

(* portfolio.py lines 186-196: the pending buys and their total cost *)
PartialBuyReqs(snapshot_prev, prices, eq, target_qty, cash1, changes1, buys) ==
    LET need(t) == target_qty[t] - Qty(snapshot_prev.portfolio, t)
        px(t) == PxOf(prices, snapshot_prev.portfolio, t)
    IN  PartialBuys(snapshot_prev, prices, eq, cash1, changes1,
            [i \in 1..Len(buys) |->
                [t |-> buys[i], need_q |-> need(buys[i]), px |-> px(buys[i]),
                 cost |-> need(buys[i]) * px(buys[i])]],
            SumSeq([i \in 1..Len(buys) |-> need(buys[i]) * px(buys[i])]))

(* portfolio.py lines 176-184: the sell phase credits cash and records the *)
(* change; the quantities of new_portfolio are left as they were           *)
PartialSells(snapshot_prev, prices, sub, eq, target_qty, sells) ==
    LET prev(t) == Qty(snapshot_prev.portfolio, t)
    IN  PartialBuyReqs(snapshot_prev, prices, eq, target_qty,
            CashOf(snapshot_prev)
            + SumSeq([i \in 1..Len(sells) |->
                        (prev(sells[i]) - target_qty[sells[i]])
                        * PxOf(prices, snapshot_prev.portfolio, sells[i])]),
            [i \in 1..Len(sells) |->
                <<sells[i], prev(sells[i]), target_qty[sells[i]]>>],
            SelectSeq(sub, LAMBDA t : target_qty[t] > prev(t)))

PartialSized(snapshot_prev, prices, sub, eq, target_qty) ==
    PartialSells(snapshot_prev, prices, sub, eq, target_qty,
        SelectSeq(sub, LAMBDA t : target_qty[t] < Qty(snapshot_prev.portfolio, t)))

PartialTargets(snapshot_prev, prices, partial, eq) ==
    PartialSized(snapshot_prev, prices, partial.sub, eq,
                 TargetQty(snapshot_prev.portfolio, prices, partial, eq))

(* apply_partial_target_weights(snapshot_prev, prices, target_weights_partial): *)
(* partial is [sub, num, den], the dict keys in order and the weight       *)
(* num[t] / den of each; the steps of the function body follow one another *)
(* in the operators above                                                  *)
apply_partial_target_weights(snapshot_prev, prices, partial) ==
    PartialTargets(snapshot_prev, prices, partial,
                   PartialEquity(snapshot_prev, prices, partial.sub))

(* faulty variant of ForcedSnapshot: the cash left after the emergency     *)
(* sells is written as it is                                               *)
ForcedSnapshot_NoFloor(st1, prices) ==
    update_snapshot_prices(MkSnapshot(st1.portfolio, st1.keys, st1.cash), prices)

(* force_cash_non_negative, lines 340-341: cash floored at 0 *)
ForcedSnapshot(st1, prices) ==
    update_snapshot_prices(MkSnapshot(st1.portfolio, st1.keys, Max(0, st1.cash)), prices)

(* force_cash_non_negative(snapshot, prices) *)
force_cash_non_negative(snapshot, prices) ==
    IF CashOf(snapshot) >= 0 THEN update_snapshot_prices(snapshot, prices)
    ELSE ForcedSnapshot(
            EmergencySells([portfolio |-> snapshot.portfolio, keys |-> snapshot.keys,
                            cash |-> CashOf(snapshot), changes |-> <<>>,
                            applied_buys |-> <<>>, shortfall |-> 0], prices),
            prices)

(* the tickers of the price CSV *)
CsvTickers == {"A", "B", "C"}

(* partial price vectors: a ticker may have no price in the CSV row *)
PriceVectors == UNION {[S -> 0..MaxPrice] : S \in SUBSET CsvTickers}

(* the weights a caller may pass, over the denominator 2: negative (read   *)
(* as 0 by max(0.0, w)), a half, one                                       *)
PartialNums == {-1, 1, 2}

(* the sequences of distinct tickers: the key orders of a weights dict *)
SubOrders ==
    {<<>>} \cup {<<t>> : t \in CsvTickers}
    \cup {q \in CsvTickers \X CsvTickers : q[1] # q[2]}
    \cup {q \in CsvTickers \X CsvTickers \X CsvTickers :
            q[1] # q[2] /\ q[1] # q[3] /\ q[2] # q[3]}

InSeq(seq, x) == \E i \in 1..Len(seq) : seq[i] = x

(* weights dicts [sub, num, den]; num of a ticker outside the dict is 0    *)
(* and never read                                                          *)
PartialChoices ==
    {p \in {[sub |-> sub, num |-> num, den |-> 2] :
                sub \in SubOrders, num \in [CsvTickers -> PartialNums \cup {0}]} :
        \A t \in CsvTickers : InSeq(p.sub, t) <=> p.num[t] # 0}

Snap(portfolio, keys, cash) ==
    update_snapshot_prices(MkSnapshot(portfolio, keys, cash), <<>>)

Pf2(t1, h1, t2, h2) == [t \in {t1, t2} |-> IF t = t1 THEN h1 ELSE h2]

(* snapshots a backtest can start from: the last snapshot of an earlier    *)
(* run (cash may be negative) or the root portfolio.json, which has        *)
(* "liquid" but no "cash"                                                  *)
StartSnapshots ==
    { Snap(<<>>, <<>>, 100),
      Snap(<<>>, <<>>, 3),
      Snap([t \in {"A"} |-> Holding(10, 1, 1)], <<"A">>, 0),
      Snap(Pf2("A", Holding(10, 1, 1), "C", Holding(20, 1, 1)), <<"A", "C">>, 0),
      Snap(Pf2("A", Holding(30, 1, 1), "B", Holding(2, 2, 2)), <<"A", "B">>, 40),
      Snap(Pf2("A", Holding(3, 2, 1), "B", Holding(1, 1, 2)), <<"B", "A">>, -3),
      Snap([t \in CsvTickers |->
                IF t = "A" THEN Holding(2, 1, 1)
                ELSE IF t = "B" THEN Holding(1, 1, 1) ELSE Holding(60, 1, 2)],
           <<"A", "B", "C">>, -1),
      Snap(Pf2("B", Holding(2, 2, 2), "C", Holding(4, 1, 1)), <<"C", "B">>, -7),
      Snap([t \in {"A"} |-> Holding(1, 1, 1)], <<"A">>, -5),
      [portfolio |-> [t \in {"B"} |-> Holding(4, 2, 1)], keys |-> <<"B">>,
       cash |-> 0, has_cash |-> FALSE, liquid |-> InitialLiquid, has_liquid |-> TRUE,
       net_liquidation |-> 0] }

InitPartial ==
    /\ entry = "partial"
    /\ IdleOpt
    /\ IdleLedger
    /\ IdleRun
    /\ IdleThr
    /\ csvRun = NoOp
    /\ csvSnapshot \in StartSnapshots
    /\ preSnap = csvSnapshot
    /\ csvOp = NoOp
    /\ steps = 0

(* one partial rebalance as the backtest applies it, on a snapshot and     *)
(* with prices and weights drawn from the bounded sets:                    *)
(* apply_partial_target_weights, then force_cash_non_negative              *)
PartialRebalance ==
    /\ entry = "partial"
    /\ csvOp = NoOp
    /\ \E prices \in PriceVectors, partial \in PartialChoices :
         LET out == apply_partial_target_weights(csvSnapshot, prices, partial)
         IN  /\ csvSnapshot' = force_cash_non_negative(out.snapshot, prices)
             /\ csvOp' = [op |-> "partial", prices |-> prices, partial |-> partial,
                          out |-> out]
    /\ preSnap' = csvSnapshot
    /\ UNCHANGED <<optVars, ledgerVars, csvRun, run, thr, steps, entry>>

NextPartial == PartialRebalance

SpecPartial == InitPartial /\ [][NextPartial]_vars

(* update_snapshot_prices applied to a snapshot as load_snapshot returns   *)
(* it (a snapshot of an earlier run or the root portfolio.json) and to the *)
(* snapshot it returned                                                    *)
InitReprice ==
    /\ entry = "reprice"
    /\ IdleOpt
    /\ IdleLedger
    /\ IdleRun
    /\ IdleThr
    /\ csvRun = NoOp
    /\ csvSnapshot \in StartSnapshots
    /\ preSnap = csvSnapshot
    /\ csvOp = NoOp
    /\ steps = 0

Reprice ==
    /\ entry = "reprice"
    /\ steps < MaxSteps
    /\ \E prices \in PriceVectors :
          /\ csvSnapshot' = update_snapshot_prices(csvSnapshot, prices)
          /\ csvOp' = [op |-> "reprice", prices |-> prices]
    /\ preSnap' = csvSnapshot
    /\ steps' = steps + 1
    /\ UNCHANGED <<optVars, ledgerVars, csvRun, run, thr, entry>>

NextReprice == Reprice

SpecReprice == InitReprice /\ [][NextReprice]_vars

----------------------------------------------------------------------------
(* run() of src/testing/mvo_blm_runner.py: the CSV backtest                 *)

(* the trading dates of the price CSV, as day numbers, and the start dates *)
Dates == <<1, 8, 15>>
StartDates == {1, 8}

(* the rows of the price CSV: a price for A and B (the CSV has no column   *)
(* for C), or no row for the date                                          *)
CsvRows == {<<>>} \cup [{"A", "B"} -> 0..MaxPrice]

(* scheduler.py biweekly_rebalance_days; last_reb is <<>> for None *)
RECURSIVE BiweeklyLoop(_, _, _, _)
BiweeklyLoop(trading_dates, start, i, last_reb) ==
    IF i > Len(trading_dates) THEN <<>>
    ELSE LET current == trading_dates[i]
         IN  IF current < start
             THEN BiweeklyLoop(trading_dates, start, i + 1, last_reb)
             ELSE IF last_reb = <<>> \/ current - last_reb[1] >= 14
                  THEN <<current>> \o BiweeklyLoop(trading_dates, start, i + 1, <<current>>)
                  ELSE BiweeklyLoop(trading_dates, start, i + 1, last_reb)

biweekly_rebalance_days(trading_dates, start_date) ==
    BiweeklyLoop(trading_dates, start_date, 1, <<>>)

(* seq[:n] *)
TopN(seq, n) == SubSeq(seq, 1, Min(Len(seq), n))

(* run(): mv_pairs sorted by market value, first 50 tickers *)
opt_universe(snapshot, tickers, prices_today) ==
    LET mv_pairs == [i \in 1..Len(tickers) |->
                        [t |-> tickers[i],
                         val |-> Qty(snapshot.portfolio, tickers[i])
                                 * PxOf(prices_today, snapshot.portfolio, tickers[i])]]
        sorted == SortDesc(mv_pairs)
    IN  TopN([i \in 1..Len(sorted) |-> sorted[i].t], 50)

(* target_w_opt: mean_variance_optimize(mu_opt, cov_opt, long_only=True)   *)
(* of testing/mvo/optimizer.py, for the posterior means of a universe of   *)
(* n tickers (covariance: the identity); an empty array for n = 0          *)
TargetWeights(n) ==
    IF n = 0 THEN {[num |-> <<>>, den |-> 1]}
    ELSE IF n = 1
         THEN {optimizer_mean_variance_optimize(mu, <<<<1>>>>, TRUE) : mu \in MuSet(1)}
         ELSE {optimizer_mean_variance_optimize(mu, <<<<1, 0>>, <<0, 1>>>>, TRUE) :
                  mu \in MuSet(2)}

(* run(): the partial weights dict of the top 10 holders, divided by their *)
(* sum s when s > 0                                                        *)
partial_weights(universe, w) ==
    LET top10 == TopN(universe, 10)
        raw == [i \in 1..Len(top10) |-> Max(0, w.num[i])]
        s == SumSeq(raw)
    IN  [sub |-> top10,
         num |-> [t \in CsvTickers |->
                    IF InSeq(top10, t) THEN raw[IndexOf(top10, t)] ELSE 0],
         den |-> IF s > 0 THEN s ELSE w.den]

RunStartSnapshots == {snp \in StartSnapshots : Len(snp.keys) <= 2}

InitCsv ==
    /\ entry = "csv"
    /\ IdleOpt
    /\ IdleLedger
    /\ IdleRun
    /\ IdleThr
    /\ csvSnapshot \in RunStartSnapshots
    /\ preSnap = csvSnapshot
    /\ csvOp = NoOp
    /\ \E sd \in StartDates :
          csvRun = [start_date |-> sd, tickers |-> csvSnapshot.keys,
                    rebalance_days |-> biweekly_rebalance_days(Dates, sd)]
    /\ steps = 0

(* the date of the loop iteration to run next *)
CsvDate == Dates[steps + 1]

(* run(): a date before start_date is skipped *)
CsvSkip ==
    /\ entry = "csv"
    /\ steps < Len(Dates)
    /\ CsvDate < csvRun.start_date
    /\ steps' = steps + 1
    /\ UNCHANGED <<optVars, ledgerVars, csvVars, run, thr, entry>>

(* run(): a non-rebalance day; update_snapshot_prices, then                *)
(* force_cash_non_negative, then save_snapshot                             *)
CsvReval ==
    /\ entry = "csv"
    /\ steps < Len(Dates)
    /\ CsvDate >= csvRun.start_date
    /\ ~InSeq(csvRun.rebalance_days, CsvDate)
    /\ \E prices_today \in CsvRows :
         LET updated == force_cash_non_negative(
                            update_snapshot_prices(csvSnapshot, prices_today),
                            prices_today)
         IN  /\ csvSnapshot' = updated
             /\ csvOp' = [op |-> "reval", date |-> CsvDate, prices |-> prices_today]
    /\ preSnap' = csvSnapshot
    /\ steps' = steps + 1
    /\ UNCHANGED <<optVars, ledgerVars, csvRun, run, thr, entry>>

(* run(): a rebalance day; the partial weights of the top holders,         *)
(* apply_partial_target_weights, force_cash_non_negative, save_snapshot    *)
CsvRebalance ==
    /\ entry = "csv"
    /\ steps < Len(Dates)
    /\ CsvDate >= csvRun.start_date
    /\ InSeq(csvRun.rebalance_days, CsvDate)
    /\ \E prices_today \in CsvRows :
         LET universe == opt_universe(csvSnapshot, csvRun.tickers, prices_today)
         IN  \E w \in TargetWeights(Len(universe)) :
                LET partial == partial_weights(universe, w)
                    out == apply_partial_target_weights(csvSnapshot, prices_today, partial)
                IN  /\ csvSnapshot' = force_cash_non_negative(out.snapshot, prices_today)
                    /\ csvOp' = [op |-> "rebalance", date |-> CsvDate,
                                 prices |-> prices_today, partial |-> partial,
                                 out |-> out]
    /\ preSnap' = csvSnapshot
    /\ steps' = steps + 1
    /\ UNCHANGED <<optVars, ledgerVars, csvRun, run, thr, entry>>

NextCsv == CsvSkip \/ CsvReval \/ CsvRebalance

SpecCsv == InitCsv /\ [][NextCsv]_vars

----------------------------------------------------------------------------
(* Returns windows of a rebalance decision: run() of                        *)
(* src/testing/mvo_blm_runner.py and fetch_returns_matrix of                *)
(* src/tradingagents/agents/managers/MVO_BLM/data_utils.py                  *)

MaxDates == 63

(* idx - 60 and idx - 10 in run(); lookback_days + 30 calendar days in      *)
(* fetch_returns_matrix                                                     *)
CovLookback == 60
LlmLookback == 10
LookbackDays == 252
LookbackPad == 30

(* seq[a:b] of Python for 0 <= a, 0 <= b <= len(seq) *)
Slice(seq, a, b) == SubSeq(seq, a + 1, b)

(* seq.index(x): the 0-based index of the first occurrence *)
PyIndex(seq, x) ==
    (CHOOSE i \in 1..Len(seq) : seq[i] = x /\ \A j \in 1..(i - 1) : seq[j] # x) - 1

(* faulty variant of window_dates: the slice ends after d *)
window_dates_Inclusive(dates_sorted, d, lookback) ==
    LET idx == PyIndex(dates_sorted, d)
    IN  Slice(dates_sorted, Max(0, idx - lookback), idx + 1)

(* run(): dates_sorted[max(0, idx - lookback):idx] with idx =               *)
(* dates_sorted.index(d)                                                    *)
window_dates(dates_sorted, d, lookback) ==
    LET idx == PyIndex(dates_sorted, d)
    IN  Slice(dates_sorted, Max(0, idx - lookback), idx)

(* the pairs (window_dates[i - 1], window_dates[i]) a return is computed    *)
(* from, for i in range(1, len(window_dates))                               *)
returns_rows(window) ==
    [i \in 1..(Len(window) - 1) |-> <<window[i], window[i + 1]>>]

(* the dates of yf.Ticker(t).history(start=start, end=end): start           *)
(* inclusive, end exclusive                                                 *)
history(dates, start, end) ==
    SelectSeq(dates, LAMBDA x : start <= x /\ x < end)

(* fetch_returns_matrix(tickers, end_date, lookback_days): the dates of the *)
(* closes of a series kept (more than 2 rows), none otherwise               *)
fetch_returns_matrix(dates, end_date) ==
    LET hist == history(dates, end_date - (LookbackDays + LookbackPad), end_date)
    IN  IF Len(hist) > 2 THEN hist ELSE <<>>

(* sorted(dates) of the price file: daily or weekly dates, and a file with  *)
(* a date row repeated                                                      *)
DateLists ==
    {[i \in 1..n |-> i * step] : n \in 1..MaxDates, step \in {1, 7}}
    \cup {[i \in 1..n |-> (i + 1) \div 2] : n \in 2..4}

InitWindows ==
    /\ entry = "windows"
    /\ IdleOpt
    /\ IdleLedger
    /\ IdleRun
    /\ IdleThr
    /\ csvSnapshot = EmptyLedger
    /\ preSnap = EmptyLedger
    /\ csvOp = NoOp
    /\ \E ds \in DateLists : csvRun = [dates_sorted |-> ds]
    /\ steps = 0

(* the windows of the rebalance decision on date d *)
BuildWindows ==
    /\ entry = "windows"
    /\ csvOp = NoOp
    /\ \E i \in 1..Len(csvRun.dates_sorted) :
          LET d == csvRun.dates_sorted[i]
              wd == window_dates(csvRun.dates_sorted, d, CovLookback)
              wl == window_dates(csvRun.dates_sorted, d, LlmLookback)
          IN  csvOp' = [op |-> "windows", d |-> d,
                        window_dates |-> wd, returns_rows |-> returns_rows(wd),
                        window_dates_llm |-> wl, llm_rows |-> returns_rows(wl),
                        hist |-> fetch_returns_matrix(csvRun.dates_sorted, d)]
    /\ UNCHANGED <<optVars, ledgerVars, csvSnapshot, preSnap, csvRun, run, thr, steps,
                   entry>>

NextWindows == BuildWindows

SpecWindows == InitWindows /\ [][NextWindows]_vars

----------------------------------------------------------------------------
(* main() of src/mvo_blm_runner.py in cadence mode                          *)

(* the market days of [start, end] are the dates 1..NDays *)
NDays == 3
MaxCadence == 2
MaxSchedule == 7

(* --cadence is any integer; --anchor is a date, possibly after --end *)
Cadences == -1..MaxCadence
Anchors == 1..(NDays + 1)

(* the close prices of a day: a ticker outside the domain has none (the    *)
(* resolver raises)                                                        *)
DayPrices == UNION {[S -> 1..MaxPrice] : S \in SUBSET Tickers}

(* _get_prices_for_date: 0.0 for a ticker without a price *)
_get_prices_for_date(p) == [t \in Tickers |-> IF t \in DOMAIN p THEN p[t] ELSE 0]

(* faulty variant of _snapshot: the net liquidation value is persisted as  *)
(* the cash balance                                                        *)
_snapshot_NetLiqAsLiquid(d, p) ==
    LET pf == [sym \in DOMAIN d.portfolio |->
                 [d.portfolio[sym] EXCEPT
                     !.last_price = IF sym \in DOMAIN p THEN p[sym] ELSE @]]
    IN  [portfolio |-> pf,
         liquid |-> d.liquid + SumOver(DOMAIN pf,
                        [sym \in DOMAIN pf |-> pf[sym].totalAmount * pf[sym].last_price])]

(* _snapshot(date_str, data, out_date_dir, portfolio_path): the ledger     *)
(* persisted to portfolio_path, last_price revalued where a close exists   *)
_snapshot(d, p) ==
    [d EXCEPT !.portfolio =
        [sym \in DOMAIN d.portfolio |->
            [d.portfolio[sym] EXCEPT
                !.last_price = IF sym \in DOMAIN p THEN p[sym] ELSE @]]]

(* net liquidation written into the snapshot file *)
net_liq(d) ==
    d.liquid + SumOver(DOMAIN d.portfolio,
                       [sym \in DOMAIN d.portfolio |->
                           d.portfolio[sym].totalAmount * d.portfolio[sym].last_price])

(* valid_days[i] for a 0-based Python index i >= -NDays *)
valid_days(i) == IF i >= 0 THEN i + 1 ELSE NDays + i + 1

(* the ledgers main() finds at testing/portfolio.json, left by earlier runs *)
RunnerLedgers == {d \in StartLedgers : d.liquid < InitialLiquid}

InitRunner ==
    /\ entry = "runner"
    /\ IdleOpt
    /\ IdleCsv
    /\ IdleThr
    /\ data \in RunnerLedgers
    /\ pre = data
    /\ lastOp = NoOp
    /\ \E c \in Cadences, a \in Anchors :
          run = [pc |-> "build", cadence |-> c, anchor |-> a, i |-> 0,
                 dates |-> <<>>, day |-> 1, kinds |-> <<>>]
    /\ steps = 0

RunnerFrame == UNCHANGED <<optVars, csvVars, thr, steps, entry>>

(* _build_schedule: anchor_idx is the first index with valid_days[i] >=    *)
(* anchor; none: return []                                                 *)
ScheduleAnchor ==
    /\ entry = "runner"
    /\ run.pc = "build"
    /\ run' = IF run.anchor > NDays
              THEN [run EXCEPT !.pc = "main"]
              ELSE [run EXCEPT !.pc = "loop", !.i = run.anchor - 1]
    /\ UNCHANGED ledgerVars
    /\ RunnerFrame

(* while i < len(valid_days): dates.append(valid_days[i]); i += cadence *)
ScheduleAppend ==
    /\ entry = "runner"
    /\ run.pc = "loop"
    /\ run.i < NDays
    /\ run.i >= -NDays
    /\ Len(run.dates) < MaxSchedule
    /\ run' = [run EXCEPT !.dates = Append(@, valid_days(run.i)),
                          !.i = @ + run.cadence]
    /\ UNCHANGED ledgerVars
    /\ RunnerFrame

(* valid_days[i] with i < -len(valid_days): IndexError, the run aborts *)
ScheduleRaise ==
    /\ entry = "runner"
    /\ run.pc = "loop"
    /\ run.i < -NDays
    /\ run' = [run EXCEPT !.pc = "raised"]
    /\ UNCHANGED ledgerVars
    /\ RunnerFrame

ScheduleReturn ==
    /\ entry = "runner"
    /\ run.pc = "loop"
    /\ run.i >= NDays
    /\ run' = [run EXCEPT !.pc = "main"]
    /\ UNCHANGED ledgerVars
    /\ RunnerFrame

(* main: "No target dates to run." and return *)
NoTargetDates ==
    /\ entry = "runner"
    /\ run.pc = "main"
    /\ run.dates = <<>>
    /\ run' = [run EXCEPT !.pc = "done"]
    /\ UNCHANGED ledgerVars
    /\ RunnerFrame

StartDays ==
    /\ entry = "runner"
    /\ run.pc = "main"
    /\ run.dates # <<>>
    /\ run' = [run EXCEPT !.pc = "days"]
    /\ UNCHANGED ledgerVars
    /\ RunnerFrame

InTargetSet(day) == InSeq(run.dates, day)

AllBuy == [t \in Tickers |-> "BUY"]

(* main: a market day outside target_set, revaluation-only snapshot *)
RevalDay ==
    /\ entry = "runner"
    /\ run.pc = "days"
    /\ run.day <= NDays
    /\ ~InTargetSet(run.day)
    /\ \E p \in DayPrices :
          /\ data' = _snapshot(data, p)
          /\ lastOp' = [op |-> "reval", day |-> run.day, close |-> p]
    /\ pre' = data
    /\ run' = [run EXCEPT !.day = @ + 1, !.kinds = Append(@, "reval")]
    /\ RunnerFrame

(* the resolver on a day without usable prices: it raises (no entry) or    *)
(* returns 0                                                               *)
NoPrices == UNION {[S -> {0}] : S \in SUBSET Tickers}

(* faulty variant of NoPriceDay: the run ends after the snapshot of the    *)
(* day (return instead of continue)                                        *)
NoPriceDay_Return ==
    /\ entry = "runner"
    /\ run.pc = "days"
    /\ run.day <= NDays
    /\ InTargetSet(run.day)
    /\ \E p \in NoPrices :
          /\ data' = _snapshot(data, p)
          /\ lastOp' = [op |-> "noprice", day |-> run.day, close |-> p]
    /\ pre' = data
    /\ run' = [run EXCEPT !.pc = "done", !.kinds = Append(@, "noprice")]
    /\ RunnerFrame

(* main: a target date on which no ticker has a usable price *)
NoPriceDay ==
    /\ entry = "runner"
    /\ run.pc = "days"
    /\ run.day <= NDays
    /\ InTargetSet(run.day)
    /\ \E p \in NoPrices :
          /\ data' = _snapshot(data, p)
          /\ lastOp' = [op |-> "noprice", day |-> run.day, close |-> p]
    /\ pre' = data
    /\ run' = [run EXCEPT !.day = @ + 1, !.kinds = Append(@, "noprice")]
    /\ RunnerFrame

(* main: a target date; size_positions, _execute_trades_long_only,         *)
(* _snapshot                                                               *)
RebalanceDay ==
    /\ entry = "runner"
    /\ run.pc = "days"
    /\ run.day <= NDays
    /\ InTargetSet(run.day)
    /\ \E p \in DayPrices \ {<<>>}, cols \in ColsChoices :
         \E w \in (IF Len(cols) = 2 THEN WeightChoices2 ELSE WeightChoices1) :
            LET prices == _get_prices_for_date(p)
                trades == size_positions(data, AllBuy, prices, cols, w)
                data_after == _execute_trades_long_only(trades, data)
            IN  /\ data' = _snapshot(data_after, p)
                /\ lastOp' = [op |-> "rebalanceday", day |-> run.day, close |-> p,
                              trades |-> trades]
    /\ pre' = data
    /\ run' = [run EXCEPT !.day = @ + 1, !.kinds = Append(@, "rebalance")]
    /\ RunnerFrame

(* main: the day loop is over, "MVO-BLM Runner finished." *)
RunnerFinished ==
    /\ entry = "runner"
    /\ run.pc = "days"
    /\ run.day > NDays
    /\ run' = [run EXCEPT !.pc = "done"]
    /\ UNCHANGED ledgerVars
    /\ RunnerFrame

NextRunner ==
    \/ ScheduleAnchor \/ ScheduleAppend \/ ScheduleRaise \/ ScheduleReturn
    \/ NoTargetDates \/ StartDays
    \/ RevalDay \/ NoPriceDay \/ RebalanceDay \/ RunnerFinished

SpecRunner == InitRunner /\ [][NextRunner]_vars

(* main() with --dates: target_dates is the list as typed, full_days is a   *)
(* copy of it and the day loop walks it in that order                      *)
MaxDatesArg == 2

DatesArgs == UNION {[1..n -> 1..NDays] : n \in 1..MaxDatesArg}

(* run.day is the position in target_dates; run.done has one entry per     *)
(* snapshot written: its date, the ledger the day read and the ledger it   *)
(* persisted                                                               *)
InitDates ==
    /\ entry = "dates"
    /\ IdleOpt
    /\ IdleCsv
    /\ IdleThr
    /\ data \in RunnerLedgers
    /\ pre = data
    /\ lastOp = NoOp
    /\ \E ds \in DatesArgs :
          run = [pc |-> "days", dates |-> ds, day |-> 1, done |-> <<>>]
    /\ steps = 0

(* a date of --dates on which no ticker has a usable price *)
DatesNoPriceDay ==
    /\ entry = "dates"
    /\ run.pc = "days"
    /\ run.day <= Len(run.dates)
    /\ \E p \in NoPrices :
          /\ data' = _snapshot(data, p)
          /\ lastOp' = [op |-> "noprice", day |-> run.dates[run.day], close |-> p]
    /\ pre' = data
    /\ run' = [run EXCEPT !.day = @ + 1,
                          !.done = Append(@, [date |-> run.dates[run.day],
                                              read |-> data, persisted |-> data'])]
    /\ RunnerFrame

(* a date of --dates: size_positions, _execute_trades_long_only, _snapshot *)
DatesRebalanceDay ==
    /\ entry = "dates"
    /\ run.pc = "days"
    /\ run.day <= Len(run.dates)
    /\ \E p \in DayPrices \ {<<>>}, cols \in ColsChoices :
         \E w \in (IF Len(cols) = 2 THEN WeightChoices2 ELSE WeightChoices1) :
            LET prices == _get_prices_for_date(p)
                trades == size_positions(data, AllBuy, prices, cols, w)
                data_after == _execute_trades_long_only(trades, data)
            IN  /\ data' = _snapshot(data_after, p)
                /\ lastOp' = [op |-> "rebalanceday", day |-> run.dates[run.day],
                              close |-> p, trades |-> trades]
    /\ pre' = data
    /\ run' = [run EXCEPT !.day = @ + 1,
                          !.done = Append(@, [date |-> run.dates[run.day],
                                              read |-> data, persisted |-> data'])]
    /\ RunnerFrame

DatesFinished ==
    /\ entry = "dates"
    /\ run.pc = "days"
    /\ run.day > Len(run.dates)
    /\ run' = [run EXCEPT !.pc = "done"]
    /\ UNCHANGED ledgerVars
    /\ RunnerFrame

NextDates == DatesNoPriceDay \/ DatesRebalanceDay \/ DatesFinished

SpecDates == InitDates /\ [][NextDates]_vars

----------------------------------------------------------------------------
(* Daily snapshot files: _snapshot of src/mvo_blm_runner.py, the snapshot   *)
(* blocks of run_batch5_multithreaded and update_metrics_for_date of        *)
(* src/tradingagents/agents/managers/metrics_manager.py                     *)

MAX_SHORT_NOTIONAL == 200000

(* _snapshot lines 173-177 (and the revaluation fast path of                *)
(* run_batch5_multithreaded, lines 190-194): the enriched ledger            *)
snapshot_file(persisted) ==
    [portfolio |-> persisted.portfolio, liquid |-> persisted.liquid,
     net_liquidation |-> net_liq(persisted), portfolio_value |-> net_liq(persisted),
     cash |-> persisted.liquid, buying_power |-> net_liq(persisted)]

(* run_batch5_multithreaded lines 687-709, after the trades of the day *)
batch_snapshot_file(persisted) ==
    LET total_short_notional ==
            SumOver(DOMAIN persisted.portfolio,
                    [t \in DOMAIN persisted.portfolio |->
                        LET h == persisted.portfolio[t]
                        IN  IF h.totalAmount < 0 /\ h.last_price > 0
                            THEN Abs(h.totalAmount) * h.last_price ELSE 0])
        short_capacity_remaining == Max(0, MAX_SHORT_NOTIONAL - total_short_notional)
    IN  [snapshot_file(persisted) EXCEPT
            !.buying_power = Max(0, net_liq(persisted)) + short_capacity_remaining]

(* update_metrics_for_date lines 106-132: the fields it rewrites in the     *)
(* latest snapshot (the return and ratio fields are left out)               *)
update_metrics_for_date(snap) ==
    LET total_val == net_liq([portfolio |-> snap.portfolio, liquid |-> snap.liquid])
    IN  [snap EXCEPT !.portfolio_value = total_val, !.cash = snap.liquid,
                     !.buying_power = snap.liquid]

SnapshotWriters == {"_snapshot", "reval", "batch"}

InitSnapshots ==
    /\ entry = "snapshots"
    /\ IdleOpt
    /\ IdleRun
    /\ IdleThr
    /\ data \in StartLedgers
    /\ pre = data
    /\ lastOp = NoOp
    /\ csvSnapshot = EmptyLedger
    /\ preSnap = EmptyLedger
    /\ csvOp = NoOp
    /\ csvRun = NoOp
    /\ steps = 0

(* the snapshot of a day is written from the ledger revalued at the day's   *)
(* closes; _snapshot also persists the revalued ledger                      *)
WriteSnapshot ==
    /\ entry = "snapshots"
    /\ steps < MaxSteps
    /\ \E p \in DayPrices, writer \in SnapshotWriters :
          LET persisted == _snapshot(data, p)
          IN  /\ csvSnapshot' = IF writer = "batch" THEN batch_snapshot_file(persisted)
                                ELSE snapshot_file(persisted)
              /\ data' = IF writer = "_snapshot" THEN persisted ELSE data
              /\ csvOp' = [op |-> "snapshot", writer |-> writer]
    /\ pre' = data
    /\ steps' = steps + 1
    /\ UNCHANGED <<optVars, lastOp, preSnap, csvRun, run, thr, entry>>

(* portfolio_optimizer_node: update_metrics_for_date on the latest snapshot *)
MetricsUpdate ==
    /\ entry = "snapshots"
    /\ csvOp.op = "snapshot"
    /\ csvSnapshot' = update_metrics_for_date(csvSnapshot)
    /\ csvOp' = [op |-> "metrics", writer |-> csvOp.writer]
    /\ UNCHANGED <<optVars, ledgerVars, preSnap, csvRun, run, thr, steps, entry>>

NextSnapshots == WriteSnapshot \/ MetricsUpdate

SpecSnapshots == InitSnapshots /\ [][NextSnapshots]_vars

----------------------------------------------------------------------------
(* The worker threads of run_batch5_multithreaded: one run_ticker per      *)
(* ticker, each running portfolio_optimizer_node, which executes its trade *)
(* on config/portfolio.json through Toolkit.buy_impl / sell_impl /         *)
(* hold_impl (json.load, update, json.dump; no lock is held)               *)

MaxQty == 2

(* what a worker asks of the ledger: the sized trade of its ticker, at the *)
(* close price the resolver returns; "SKIP": nothing is executed           *)
(* (TA_TESTING_MULTI = "1", or no trade was sized)                         *)
Requests ==
    {[op |-> "SKIP", quantity |-> 0, price |-> 0]}
    \cup {[op |-> o, quantity |-> q, price |-> p] :
            o \in {"BUY", "SELL"}, q \in 1..MaxQty, p \in 1..MaxPrice}
    \cup {[op |-> "HOLD", quantity |-> 0, price |-> p] : p \in 1..MaxPrice}

(* Toolkit.buy_impl: the ledger dumped, computed from the ledger loaded *)
buy_impl(d, ticker, quantity, current_price) ==
    LET holdings == Get(d.portfolio, ticker)
        short == d.liquid < quantity * current_price /\ current_price > 0
        buy_qty == IF short THEN FloorDiv(d.liquid, current_price) ELSE quantity
        cost == buy_qty * current_price
        prev_qty == holdings.totalAmount
        new_qty == prev_qty + buy_qty
        prev_entry == holdings.entry_price
        entry_price ==
            IF current_price > 0 /\ buy_qty > 0
            THEN IF prev_qty >= 0 /\ new_qty > 0
                 THEN IF prev_qty > 0 /\ prev_entry.n > 0
                      THEN Frac(prev_entry.n * prev_qty + current_price * buy_qty * prev_entry.d,
                                prev_entry.d * Max(new_qty, 1))
                      ELSE IntFrac(current_price)
                 ELSE IntFrac(current_price)
            ELSE prev_entry
    IN  [portfolio |-> Put(d.portfolio, ticker,
                           [totalAmount |-> new_qty, last_price |-> current_price,
                            entry_price |-> entry_price]),
         liquid |-> Max(0, d.liquid - cost)]

(* buy_impl returns "Insufficient liquidity" without writing *)
BuyReturnsEarly(d, quantity, current_price) ==
    /\ d.liquid < quantity * current_price
    /\ current_price > 0
    /\ FloorDiv(d.liquid, current_price) = 0

(* Toolkit.sell_impl *)
sell_impl(d, ticker, quantity, current_price) ==
    LET holdings == Get(d.portfolio, ticker)
        current_shares == holdings.totalAmount
        sell_qty == Min(quantity, current_shares)
        remaining == current_shares - sell_qty
    IN  [portfolio |-> Put(d.portfolio, ticker,
                           [totalAmount |-> remaining, last_price |-> current_price,
                            entry_price |-> IF remaining = 0 THEN ZeroFrac
                                            ELSE holdings.entry_price]),
         liquid |-> d.liquid + sell_qty * current_price]

(* sell_impl returns "No holdings" / "No shares" without writing *)
SellReturnsEarly(d, ticker) ==
    Qty(d.portfolio, ticker) <= 0

(* Toolkit.hold_impl *)
hold_impl(d, ticker, current_price) ==
    [d EXCEPT !.portfolio =
        Put(d.portfolio, ticker, [Get(d.portfolio, ticker) EXCEPT
                                     !.last_price = current_price])]

(* the ledger a request writes, given the ledger it loaded *)
Executed_impl(d, ticker, req) ==
    IF req.op = "BUY" THEN buy_impl(d, ticker, req.quantity, req.price)
    ELSE IF req.op = "SELL" THEN sell_impl(d, ticker, req.quantity, req.price)
    ELSE hold_impl(d, ticker, req.price)

ReturnsEarly(d, ticker, req) ==
    \/ req.op = "SKIP"
    \/ req.op = "BUY" /\ BuyReturnsEarly(d, req.quantity, req.price)
    \/ req.op = "SELL" /\ SellReturnsEarly(d, ticker)

(* file: config/portfolio.json; loaded[t]: the dict worker t has in memory *)
(* between its json.load and its json.dump; serial: the ledger the same    *)
(* requests give when each is applied to the result of the one before      *)
InitThreads ==
    /\ entry = "threads"
    /\ IdleOpt
    /\ IdleLedger
    /\ IdleCsv
    /\ IdleRun
    /\ \E d \in StartLedgers :
          thr = [file |-> d, serial |-> d,
                 pc |-> [t \in Tickers |-> "start"],
                 req |-> [t \in Tickers |-> [op |-> "SKIP", quantity |-> 0, price |-> 0]],
                 loaded |-> [t \in Tickers |-> EmptyLedger]]
    /\ steps = 0

ThreadsFrame == UNCHANGED <<optVars, ledgerVars, csvVars, run, steps, entry>>

(* worker t reaches its trade and loads the ledger file *)
ThreadLoad(t) ==
    /\ entry = "threads"
    /\ thr.pc[t] = "start"
    /\ \E req \in Requests :
          /\ ~ReturnsEarly(thr.file, t, req)
          /\ thr' = [thr EXCEPT !.pc[t] = "loaded", !.req[t] = req,
                                !.loaded[t] = thr.file]
    /\ ThreadsFrame

(* worker t executes nothing, or its tool returns before writing *)
ThreadNoWrite(t) ==
    /\ entry = "threads"
    /\ thr.pc[t] = "start"
    /\ \E req \in Requests :
          /\ ReturnsEarly(thr.file, t, req)
          /\ thr' = [thr EXCEPT !.pc[t] = "done", !.req[t] = req]
    /\ ThreadsFrame

(* worker t dumps the ledger it computed from the one it loaded *)
ThreadDump(t) ==
    /\ entry = "threads"
    /\ thr.pc[t] = "loaded"
    /\ thr' = [thr EXCEPT
                  !.pc[t] = "done",
                  !.file = Executed_impl(thr.loaded[t], t, thr.req[t]),
                  !.serial = IF ReturnsEarly(thr.serial, t, thr.req[t]) THEN @
                             ELSE Executed_impl(thr.serial, t, thr.req[t])]
    /\ ThreadsFrame

NextThreads ==
    \E t \in Tickers : ThreadLoad(t) \/ ThreadNoWrite(t) \/ ThreadDump(t)

SpecThreads == InitThreads /\ [][NextThreads]_vars

----------------------------------------------------------------------------
(* Rebalances of either engine, from any starting ledger or snapshot        *)

InitLongOnly == InitRebalance \/ InitPartial \/ InitCsv

NextLongOnly == NextRebalance \/ NextPartial \/ NextCsv

SpecLongOnly == InitLongOnly /\ [][NextLongOnly]_vars

----------------------------------------------------------------------------
(* Properties of one rebalance (size_positions, _execute_trades_long_only) *)

Rebalanced == lastOp.op = "rebalance"

HasTrade(t) == \E i \in 1..Len(lastOp.trades) : lastOp.trades[i].sym = t

TradeIdx(t) == CHOOSE i \in 1..Len(lastOp.trades) : lastOp.trades[i].sym = t

TradeOf(t) == lastOp.trades[TradeIdx(t)]

InCols(t) == \E i \in 1..Len(lastOp.cols) : lastOp.cols[i] = t

(* the ledger just before / just after the executor handles the trade of t *)
LedgerBeforeTrade(t) ==
    _execute_trades_long_only(SubSeq(lastOp.trades, 1, TradeIdx(t) - 1), pre)

LedgerAfterTrade(t) ==
    _execute_trades_long_only(SubSeq(lastOp.trades, 1, TradeIdx(t)), pre)

(* C4: a flat ticker with a BUY or HOLD decision, a positive price and     *)
(* enough cash for one share when its trade is executed holds at least one *)
(* share after the rebalance.                                              *)
C4_BuyOpensMinLot ==
    Rebalanced =>
        \A t \in Tickers :
            ( /\ Qty(pre.portfolio, t) = 0
              /\ lastOp.decisions[t] \in {"BUY", "HOLD"}
              /\ lastOp.prices[t] > 0
              /\ HasTrade(t)
              /\ LedgerBeforeTrade(t).liquid >= lastOp.prices[t] )
            => Qty(data.portfolio, t) >= 1

SellExit(t) ==
    /\ HasTrade(t)
    /\ TradeOf(t).target_qty = 0
    /\ TradeOf(t).delta_shares = -Qty(pre.portfolio, t)
    /\ Qty(data.portfolio, t) = 0
    /\ LedgerAfterTrade(t).liquid =
           LedgerBeforeTrade(t).liquid + Qty(pre.portfolio, t) * lastOp.prices[t]
    /\ Get(data.portfolio, t).entry_price = ZeroFrac

LedgerEquity(d, prices) ==
    d.liquid + SumOver(DOMAIN d.portfolio,
                       [t \in DOMAIN d.portfolio |-> d.portfolio[t].totalAmount * prices[t]])

(* floor(w * equity / p) for the optimizer weight of t *)
WeightTarget(t, equity) ==
    LET i == IndexOf(lastOp.cols, t)
    IN  FloorDiv(Max(0, lastOp.w.num[i]) * equity, lastOp.w.den * lastOp.prices[t])

FlatBuy(t) ==
    /\ Qty(pre.portfolio, t) = 0
    /\ lastOp.decisions[t] = "BUY"
    /\ lastOp.prices[t] > 0
    /\ InCols(t)

(* the trade of t is sized at target and, when affordable, filled in full *)
SizedAndFilled(t, target) ==
    /\ HasTrade(t)
    /\ TradeOf(t).target_qty = target
    /\ target > 0 =>
          /\ TradeOf(t).delta_shares = target
          /\ LedgerBeforeTrade(t).liquid >= target * lastOp.prices[t] =>
                /\ Qty(LedgerAfterTrade(t).portfolio, t) = target
                /\ LedgerAfterTrade(t).liquid =
                      LedgerBeforeTrade(t).liquid - target * lastOp.prices[t]

(* C12 as stated: for a flat ticker with a BUY decision, optimizer weight w *)
(* and price p > 0, size_positions emits target_qty = floor(w * equity / p) *)
(* with equity = ledger cash + market value of the holdings, delta_shares = *)
(* target_qty when that is > 0, and executing the trade with sufficient     *)
(* cash sets the quantity to target_qty and lowers cash by delta_shares * p.*)
C12_FlatBuySizedOnEquity ==
    Rebalanced =>
        \A t \in Tickers :
            FlatBuy(t) => SizedAndFilled(t, WeightTarget(t, LedgerEquity(pre, lastOp.prices)))

Reverse(seq) == [i \in 1..Len(seq) |-> seq[Len(seq) + 1 - i]]

(* shares trade tr asks to buy (> 0) or to sell (< 0) on the ledger before *)
(* the rebalance; 0 for a trade without a price                            *)
AskedDelta(tr) ==
    IF tr.price <= 0 THEN 0
    ELSE Max(0, tr.target_qty) - Qty(pre.portfolio, tr.sym)

(* cash freed by the sells, and the cost of the buys, of the trade map *)
SellProceeds ==
    SumSeq([i \in 1..Len(lastOp.trades) |->
               Max(0, -AskedDelta(lastOp.trades[i])) * lastOp.trades[i].price])

BuyCost ==
    SumSeq([i \in 1..Len(lastOp.trades) |->
               Max(0, AskedDelta(lastOp.trades[i])) * lastOp.trades[i].price])

(* C20: the ledger produced by _execute_trades_long_only for the trade map *)
(* of one rebalance does not depend on the order of the trades; in         *)
(* particular every buy is filled in full whenever the starting cash plus  *)
(* the cash freed by the sells of the rebalance covers the buys.           *)
C20_TradeOrderIrrelevant ==
    Rebalanced =>
        /\ data = _execute_trades_long_only(Reverse(lastOp.trades), pre)
        /\ pre.liquid + SellProceeds >= BuyCost =>
              \A i \in 1..Len(lastOp.trades) :
                  AskedDelta(lastOp.trades[i]) > 0 =>
                      Qty(data.portfolio, lastOp.trades[i].sym)
                          = Max(0, lastOp.trades[i].target_qty)

(* shares the trade of t asks to buy on the ledger the executor finds, and *)
(* the shares the cash at hand pays for                                    *)
BuyAsked(t) == Max(0, TradeOf(t).target_qty) - Qty(LedgerBeforeTrade(t).portfolio, t)

Affordable(t) == FloorDiv(LedgerBeforeTrade(t).liquid, TradeOf(t).price)

(* C21: starting from liquid >= 0, after any sequence of                   *)
(* _execute_trades_long_only calls liquid is >= 0: each buy is filled for  *)
(* min(requested shares, floor(liquid / price)) shares, and is skipped,    *)
(* leaving quantity and cash unchanged, when that number is 0.             *)
C21_LiquidNonNegative ==
    /\ entry = "rebalance" => data.liquid >= 0
    /\ Rebalanced =>
          \A t \in Tickers :
              (HasTrade(t) /\ TradeOf(t).price > 0 /\ BuyAsked(t) > 0) =>
                  LET fill == Min(BuyAsked(t), Affordable(t))
                      b == LedgerBeforeTrade(t)
                      a == LedgerAfterTrade(t)
                  IN  /\ Qty(a.portfolio, t) = Qty(b.portfolio, t) + fill
                      /\ a.liquid = b.liquid - fill * TradeOf(t).price
                      /\ fill >= 0

(* a rebalance in which a buy is cut to the shares the cash pays for *)
C21_Witness ==
    /\ Rebalanced
    /\ \E t \in Tickers :
          /\ HasTrade(t) /\ TradeOf(t).price > 0
          /\ BuyAsked(t) > Affordable(t) /\ Affordable(t) > 0
          /\ Qty(data.portfolio, t) = Qty(pre.portfolio, t) + Affordable(t)

(* the position of t before and after its trade, and the shares traded *)
PosBefore(t) == Get(LedgerBeforeTrade(t).portfolio, t)

PosAfter(t) == Get(LedgerAfterTrade(t).portfolio, t)

Traded(t) == PosAfter(t).totalAmount - PosBefore(t).totalAmount

(* the fraction x, kept in lowest terms, equals num / den *)
FracIs(x, num, den) == x = Frac(num, den)

(* C24: entry-price bookkeeping over any sequence of executed trades: a    *)
(* buy of b shares at price p on a position of q > 0 shares with entry e   *)
(* sets entry_price to (q*e + b*p)/(q+b); a buy from a flat position sets  *)
(* it to p; a partial sell leaves it unchanged; a sell to quantity 0 sets  *)
(* it to 0; hence entry_price is 0 exactly when the quantity is 0.         *)
C24_EntryPriceBookkeeping ==
    /\ Rebalanced =>
          \A t \in Tickers :
              HasTrade(t) =>
                  LET q == PosBefore(t).totalAmount
                      e == PosBefore(t).entry_price
                      b == Traded(t)
                      p == TradeOf(t).price
                      after == PosAfter(t)
                  IN  /\ (b > 0 /\ q > 0) =>
                            FracIs(after.entry_price, q * e.n + b * p * e.d, e.d * (q + b))
                      /\ (b > 0 /\ q = 0) => FracIs(after.entry_price, p, 1)
                      /\ (b < 0 /\ after.totalAmount > 0) => after.entry_price = e
                      /\ (b < 0 /\ after.totalAmount = 0) => after.entry_price.n = 0
    /\ entry = "rebalance" =>
          \A t \in DOMAIN data.portfolio :
              data.portfolio[t].entry_price.n = 0 <=> data.portfolio[t].totalAmount = 0

(* a buy that adds to a position at a price other than its entry price *)
C24_Witness ==
    /\ Rebalanced
    /\ \E t \in Tickers :
          /\ HasTrade(t)
          /\ PosBefore(t).totalAmount > 0
          /\ Traded(t) > 0
          /\ ~FracIs(PosBefore(t).entry_price, TradeOf(t).price, 1)
          /\ ~FracIs(PosAfter(t).entry_price, TradeOf(t).price, 1)

----------------------------------------------------------------------------
(* Properties of apply_partial_target_weights                               *)

PartialApplied == csvOp.op = "partial"

(* cash + sum of quantity * price, a ticker without a price in p valued at *)
(* its last_price                                                          *)
EquityAt(snp, p) ==
    CashOf(snp) +
    SumOver(DOMAIN snp.portfolio,
            [t \in DOMAIN snp.portfolio |->
                snp.portfolio[t].totalAmount * PxOf(p, snp.portfolio, t)])

(* C3: the snapshot returned by apply_partial_target_weights has the same  *)
(* cash + sum of quantity * price, at the call's prices, as the input      *)
(* snapshot (difference at most 1e-6).                                     *)
C3_EquityInvariance ==
    PartialApplied =>
        1000000 * Abs(EquityAt(csvOp.out.snapshot, csvOp.prices)
                      - EquityAt(preSnap, csvOp.prices)) <= 1

(* a call that sold, bought and changed the cash balance *)
C3_Witness ==
    /\ PartialApplied
    /\ csvOp.out.applied_buys # <<>>
    /\ Len(csvOp.out.changes) > Len(csvOp.out.applied_buys)
    /\ CashOf(csvOp.out.snapshot) # CashOf(preSnap)

(* target_qty of the call, as lines 161-174 compute it *)
TargetOfCall ==
    TargetQty(preSnap.portfolio, csvOp.prices, csvOp.partial,
              PartialEquity(preSnap, csvOp.prices, csvOp.partial.sub))

(* a subset ticker with a positive price held above its target quantity *)
AboveTarget(t) ==
    /\ InSeq(csvOp.partial.sub, t)
    /\ PxOf(csvOp.prices, preSnap.portfolio, t) > 0
    /\ Qty(preSnap.portfolio, t) > TargetOfCall[t]

(* the call did nothing but sell down: no pending buy and no emergency sale *)
OnlySellDown ==
    /\ csvOp.out.buy_reqs = <<>>
    /\ csvOp.out.cash_after_sells >= 0
    /\ \E t \in CsvTickers : AboveTarget(t)

(* C16: after apply_partial_target_weights every subset ticker with a      *)
(* positive price whose quantity exceeds its target quantity               *)
(* floor(min(max(0, w) * budget, 5% of total equity) / price) holds exactly *)
(* the target quantity in the returned snapshot, and the sale proceeds are *)
(* part of the returned cash.                                              *)
C16_SellDownToTarget ==
    PartialApplied =>
        /\ \A t \in CsvTickers :
              AboveTarget(t) => Qty(csvOp.out.snapshot.portfolio, t) = TargetOfCall[t]
        /\ OnlySellDown => CashOf(csvOp.out.snapshot) = csvOp.out.cash_after_sells

(* value, at the call's prices, of the holdings with a positive price *)
PricedHoldings ==
    SumOver(DOMAIN preSnap.portfolio,
            [t \in DOMAIN preSnap.portfolio |->
                IF preSnap.portfolio[t].totalAmount > 0
                   /\ PxOf(csvOp.prices, preSnap.portfolio, t) > 0
                THEN preSnap.portfolio[t].totalAmount
                     * PxOf(csvOp.prices, preSnap.portfolio, t)
                ELSE 0])

(* C17: apply_partial_target_weights returns cash >= 0 whenever the input  *)
(* cash is >= 0, and also when the input cash is negative but the          *)
(* positively priced holdings are worth at least the shortfall.            *)
C17_ReturnedCashNonNegative ==
    (PartialApplied /\ (CashOf(preSnap) >= 0 \/ PricedHoldings >= -CashOf(preSnap)))
        => CashOf(csvOp.out.snapshot) >= 0

(* C18: a partial rebalance step as the backtest runs it                   *)
(* (apply_partial_target_weights, then force_cash_non_negative), started   *)
(* from cash >= 0, leaves the quantity and the entry_price of every held   *)
(* ticker outside the rebalanced subset unchanged.                         *)
C18_OutsideSubsetUntouched ==
    (PartialApplied /\ CashOf(preSnap) >= 0) =>
        \A t \in DOMAIN preSnap.portfolio :
            ~InSeq(csvOp.partial.sub, t) =>
                /\ Qty(csvSnapshot.portfolio, t) = preSnap.portfolio[t].totalAmount
                /\ Get(csvSnapshot.portfolio, t).entry_price
                      = preSnap.portfolio[t].entry_price

(* the entries of the change list about ticker t *)
ChangesOf(t) == SelectSeq(csvOp.out.changes, LAMBDA c : c[1] = t)

(* C19: the change list returned by apply_partial_target_weights agrees    *)
(* with the returned snapshot: the new quantity of the last entry of each  *)
(* ticker is its quantity in the snapshot (0 when absent), and every       *)
(* ticker whose quantity differs from the input snapshot has an entry.     *)
C19_ChangesMatchSnapshot ==
    PartialApplied =>
        \A t \in CsvTickers :
            /\ ChangesOf(t) # <<>> =>
                  ChangesOf(t)[Len(ChangesOf(t))][3] = Qty(csvOp.out.snapshot.portfolio, t)
            /\ Qty(csvOp.out.snapshot.portfolio, t) # Qty(preSnap.portfolio, t) =>
                  ChangesOf(t) # <<>>

(* force_cash_non_negative was given a snapshot with negative cash: the    *)
(* one apply_partial_target_weights returned                               *)
ForcedSale == PartialApplied /\ CashOf(csvOp.out.snapshot) < 0

(* C22: force_cash_non_negative does not create or destroy value: for any  *)
(* snapshot with negative cash and any price vector, cash + sum of         *)
(* quantity * price at those prices is the same after the call as before.  *)
C22_ForcedSaleKeepsValue ==
    ForcedSale =>
        EquityAt(csvSnapshot, csvOp.prices) = EquityAt(csvOp.out.snapshot, csvOp.prices)

(* the forced sale seen from outside: the snapshot it was given, the       *)
(* shortfall, price, market value and shares sold of each holding          *)
ForcedIn == csvOp.out.snapshot

ForcedPx(t) == PxOf(csvOp.prices, ForcedIn.portfolio, t)

ForcedVal(t) == Qty(ForcedIn.portfolio, t) * ForcedPx(t)

ForcedCandidate(t) ==
    t \in DOMAIN ForcedIn.portfolio /\ Qty(ForcedIn.portfolio, t) > 0 /\ ForcedPx(t) > 0

ForcedSold(t) == Qty(ForcedIn.portfolio, t) - Qty(csvSnapshot.portfolio, t)

(* u is processed before t: larger market value, or the same and earlier   *)
(* in the portfolio                                                        *)
SoldBefore(u, t) ==
    /\ ForcedCandidate(u)
    /\ u # t
    /\ \/ ForcedVal(u) > ForcedVal(t)
       \/ ForcedVal(u) = ForcedVal(t)
          /\ IndexOf(ForcedIn.keys, u) < IndexOf(ForcedIn.keys, t)

(* the shortfall left when the turn of t comes *)
ShortfallAt(t) ==
    -CashOf(ForcedIn)
    - SumOver({u \in CsvTickers : SoldBefore(u, t)},
              [u \in CsvTickers |-> ForcedSold(u) * ForcedPx(u)])

(* C23: when cash is negative, emergency selling processes the holdings    *)
(* with positive price in descending market value, sells from each         *)
(* min(quantity, ceil(remaining shortfall / price)) shares, stops as soon  *)
(* as the shortfall is covered so that the holdings after the covering one *)
(* are untouched, and leaves no position with quantity 0 in the portfolio. *)
C23_EmergencySellOrder ==
    ForcedSale =>
        /\ \A t \in CsvTickers :
              IF ForcedCandidate(t) /\ ShortfallAt(t) > 0
              THEN ForcedSold(t) = Min(Qty(ForcedIn.portfolio, t),
                                       CeilDiv(ShortfallAt(t), ForcedPx(t)))
              ELSE Qty(ForcedIn.portfolio, t) > 0 => ForcedSold(t) = 0
        /\ \A t \in DOMAIN csvSnapshot.portfolio :
              csvSnapshot.portfolio[t].totalAmount # 0

(* a forced sale that took shares from the largest holding only, although  *)
(* a smaller holding comes first in the portfolio                          *)
C23_Witness ==
    /\ ForcedSale
    /\ \E t, u \in CsvTickers :
          /\ ForcedCandidate(t) /\ ForcedCandidate(u)
          /\ IndexOf(ForcedIn.keys, u) < IndexOf(ForcedIn.keys, t)
          /\ ForcedVal(u) < ForcedVal(t)
          /\ ForcedSold(t) > 0
          /\ ForcedSold(u) = 0

Repriced == csvOp.op = "reprice"

(* C27: update_snapshot_prices changes only last_price and the derived     *)
(* totals: every totalAmount and entry_price is unchanged and the cash     *)
(* balance is preserved, also for a snapshot in ledger format that stores  *)
(* its balance under "liquid" only (liquid is the same after the call).    *)
C27_RepricingKeepsBalance ==
    Repriced =>
        /\ DOMAIN csvSnapshot.portfolio = DOMAIN preSnap.portfolio
        /\ \A t \in DOMAIN preSnap.portfolio :
              /\ csvSnapshot.portfolio[t].totalAmount = preSnap.portfolio[t].totalAmount
              /\ csvSnapshot.portfolio[t].entry_price = preSnap.portfolio[t].entry_price
        /\ preSnap.has_cash => csvSnapshot.has_cash /\ csvSnapshot.cash = preSnap.cash
        /\ preSnap.has_liquid => csvSnapshot.liquid = preSnap.liquid

(* shares bought for ticker t by the buy loop *)
Executed(t) ==
    SumSeq([i \in 1..Len(csvOp.out.applied_buys) |->
               IF csvOp.out.applied_buys[i].t = t
               THEN csvOp.out.applied_buys[i].buy_q ELSE 0])

OverBudget == 20 * csvOp.out.total_cost > csvOp.out.allow20

(* floor(need_q * scale), scale = allowable_budget / total_cost *)
ScaledQty(need_q) ==
    FloorDiv(need_q * csvOp.out.allow20, 20 * csvOp.out.total_cost)

----------------------------------------------------------------------------
(* Properties of the rebalancing engines together                           *)

NonNegQty(pf) == \A t \in DOMAIN pf : pf[t].totalAmount >= 0

----------------------------------------------------------------------------
(* Properties of the CSV backtest (run)                                     *)

(* C2: every snapshot the CSV backtest saves, on a rebalance day or on a    *)
(* revaluation day, has cash >= 0, whatever the starting snapshot (negative *)
(* cash included) and the prices.                                           *)
C2_SavedCashNonNegative ==
    csvOp.op \in {"reval", "rebalance"} => CashOf(csvSnapshot) >= 0

(* a rebalance day saved from a snapshot whose cash was negative *)
C2_Witness ==
    /\ csvOp.op = "rebalance"
    /\ CashOf(preSnap) < 0
    /\ preSnap.portfolio # <<>>
    /\ CashOf(csvSnapshot) >= 0

----------------------------------------------------------------------------
(* Properties of the returns windows                                        *)

(* the dates of the file strictly before d *)
Before(d) == SelectSeq(csvRun.dates_sorted, LAMBDA x : x < d)

(* the last (up to) k elements of seq *)
LastUpTo(seq, k) == SubSeq(seq, Len(seq) - Min(k, Len(seq)) + 1, Len(seq))

AllBefore(seq, d) == \A i \in 1..Len(seq) : seq[i] < d

----------------------------------------------------------------------------
(* Properties of the cadence runner (main, _build_schedule, _snapshot)      *)

(* C7: a revaluation-only day leaves every ticker's totalAmount and        *)
(* entry_price and the cash balance (liquid) as they were; only last_price  *)
(* and the values derived from it change.                                   *)
C7_RevalKeepsHoldings ==
    (entry = "runner" /\ lastOp.op = "reval") =>
        /\ data.liquid = pre.liquid
        /\ DOMAIN data.portfolio = DOMAIN pre.portfolio
        /\ \A t \in DOMAIN pre.portfolio :
              /\ data.portfolio[t].totalAmount = pre.portfolio[t].totalAmount
              /\ data.portfolio[t].entry_price = pre.portfolio[t].entry_price

(* a revaluation day that moved the last_price of a position held *)
C7_Witness ==
    /\ entry = "runner"
    /\ lastOp.op = "reval"
    /\ \E t \in DOMAIN pre.portfolio :
          /\ pre.portfolio[t].totalAmount > 0
          /\ data.portfolio[t].last_price # pre.portfolio[t].last_price
          /\ net_liq(data) # net_liq(pre)

(* C13: a rebalance day on which no ticker has a price > 0 does not fail   *)
(* and makes no trade: quantities, entry prices and cash are unchanged, the *)
(* day still gets its revaluation-only snapshot, and the days after it are  *)
(* processed (the run ends with every market day handled).                  *)
C13_NoPriceDayDegrades ==
    entry = "runner" =>
        /\ lastOp.op = "noprice" =>
              /\ data.liquid = pre.liquid
              /\ DOMAIN data.portfolio = DOMAIN pre.portfolio
              /\ \A t \in DOMAIN pre.portfolio :
                    /\ data.portfolio[t].totalAmount = pre.portfolio[t].totalAmount
                    /\ data.portfolio[t].entry_price = pre.portfolio[t].entry_price
              /\ run.kinds[lastOp.day] = "noprice"
              /\ run.pc = IF lastOp.day < NDays THEN "days" ELSE run.pc
        /\ (run.pc = "done" /\ InSeq(run.kinds, "noprice")) => Len(run.kinds) = NDays

(* a finished run with a position held, a no-price day and a day processed  *)
(* after it                                                                 *)
C13_Witness ==
    /\ entry = "runner"
    /\ run.pc = "done"
    /\ Len(run.kinds) = NDays
    /\ \E t \in DOMAIN data.portfolio : data.portfolio[t].totalAmount > 0
    /\ \E j \in 1..(NDays - 1) :
          /\ run.kinds[j] = "noprice"
          /\ run.kinds[j + 1] \in {"reval", "rebalance"}

(* C25: days are processed strictly one at a time in calendar order: the   *)
(* snapshot of day d is persisted before any state is read for the next    *)
(* day, the state a day starts from is exactly the state the previous      *)
(* processed day persisted, and exactly one snapshot is written per        *)
(* processed day.                                                          *)
C25_DaysInCalendarOrder ==
    entry = "dates" =>
        /\ Len(run.done) = run.day - 1
        /\ \A k \in 1..Len(run.done) : run.done[k].date = run.dates[k]
        /\ \A k \in 2..Len(run.done) :
              /\ run.done[k].read = run.done[k - 1].persisted
              /\ run.done[k].date > run.done[k - 1].date
        /\ run.done # <<>> => data = run.done[Len(run.done)].persisted

(* day j is valid_days[a + k*cadence] for some k >= 0, a the index of the   *)
(* first market day >= anchor                                               *)
Scheduled(j) ==
    /\ run.anchor <= NDays
    /\ \E k \in 0..NDays : j = run.anchor + k * run.cadence

(* C8: in cadence mode the sizing pipeline runs exactly on the days         *)
(* valid_days[a + k*cadence], k = 0, 1, 2, ..., and every other market day  *)
(* of the range gets a revaluation-only step.                               *)
C8_CadenceSchedule ==
    entry = "runner" =>
        /\ run.pc # "raised"
        /\ run.pc = "done" =>
              /\ Len(run.kinds) = NDays
              /\ \A j \in 1..NDays :
                    IF Scheduled(j) THEN run.kinds[j] \in {"rebalance", "noprice"}
                    ELSE run.kinds[j] = "reval"

(* C26: _build_schedule terminates for every integer cadence the command  *)
(* line accepts (0 and negative values included) and returns a strictly    *)
(* increasing list of market days: the loop never raises, and the list it  *)
(* builds is strictly increasing, hence never longer than the range.       *)
C26_ScheduleTerminates ==
    entry = "runner" =>
        /\ run.pc # "raised"
        /\ Len(run.dates) <= NDays
        /\ \A i, j \in 1..Len(run.dates) : i < j => run.dates[i] < run.dates[j]

----------------------------------------------------------------------------
(* Properties of the daily snapshot files                                   *)

SnapshotWritten == entry = "snapshots" /\ csvOp.op \in {"snapshot", "metrics"}

(* cash + sum of totalAmount * last_price of the snapshot file *)
SnapshotNetLiq ==
    net_liq([portfolio |-> csvSnapshot.portfolio, liquid |-> csvSnapshot.liquid])

(* C15: every daily snapshot file, after each of its writers (trade         *)
(* execution or revaluation, and the metrics update), has net_liquidation,  *)
(* portfolio_value and buying_power equal to cash + sum of totalAmount *    *)
(* last_price and its cash field equal to the ledger's liquid balance.      *)
C15_DerivedFieldsEqualNetLiq ==
    SnapshotWritten =>
        /\ csvSnapshot.net_liquidation = SnapshotNetLiq
        /\ csvSnapshot.portfolio_value = SnapshotNetLiq
        /\ csvSnapshot.buying_power = SnapshotNetLiq
        /\ csvSnapshot.cash = data.liquid

----------------------------------------------------------------------------
(* Properties of the worker threads of one simulated day                    *)

(* C9: the ledger file has a single writer at any time: no two              *)
(* read-modify-write updates of portfolio.json by the worker threads        *)
(* interleave, and no executed trade's update to holdings or cash is lost.  *)
C9_SingleWriter ==
    entry = "threads" =>
        /\ \A t, u \in Tickers :
              (thr.pc[t] = "loaded" /\ thr.pc[u] = "loaded") => t = u
        /\ (\A t \in Tickers : thr.pc[t] = "done") => thr.file = thr.serial

----------------------------------------------------------------------------
(* Properties of mean_variance_optimize                                     *)

(* entries all >= 0 and summing to 1 *)
ValidWeights(w, n) ==
    /\ Len(w.num) = n
    /\ w.den > 0
    /\ \A i \in 1..n : w.num[i] >= 0
    /\ SumSeq(w.num) = w.den

EqualWeights(w, n) == \A i \in 1..n : n * w.num[i] = w.den

AllClippedZero ==
    \A i \in 1..optIn.n : Clip(PinvDot(optIn.cov, optIn.mu).num)[i] = 0

(* C10: with long_only, mean_variance_optimize (both copies) returns for    *)
(* every mean vector and covariance, singular ones included, weights that   *)
(* are all >= 0 and sum to 1; when every clipped weight is 0 the result is  *)
(* 1/N for every asset.                                                     *)
C10_LongOnlyWeights ==
    (optOut # NoOpt /\ optIn.long_only) =>
        /\ ValidWeights(optOut.mvo, optIn.n)
        /\ ValidWeights(optOut.tst, optIn.n)
        /\ AllClippedZero =>
              /\ EqualWeights(optOut.mvo, optIn.n)
              /\ EqualWeights(optOut.tst, optIn.n)

(* two assets, a singular covariance, a non-zero mean vector and every      *)
(* clipped weight 0                                                         *)
C10_Witness ==
    /\ optOut # NoOpt
    /\ optIn.long_only
    /\ optIn.n = 2
    /\ optIn.cov[1][1] * optIn.cov[2][2] = optIn.cov[1][2] * optIn.cov[2][1]
    /\ \E i \in 1..2 : optIn.mu[i] # 0
    /\ AllClippedZero
    /\ EqualWeights(optOut.mvo, 2)

----------------------------------------------------------------------------
(* Properties of black_litterman                                            *)

Fused == entry = "fusion" /\ optOut # NoOpt

(* two vectors of fractions are equal *)
SameVector(x, y) ==
    /\ Len(x.num) = Len(y.num)
    /\ \A i \in 1..Len(x.num) : x.num[i] * y.den = y.num[i] * x.den

Estimated == entry = "estimate" /\ optOut # NoOpt

(* n x n, 1e-4 on the diagonal and 0 elsewhere *)
IsSmallDiagonal(c, n) ==
    /\ c.n = n
    /\ ~c.nan
    /\ c.ridge = 0
    /\ \A i, j \in 1..n : 10000 * c.num[i][j] = (IF i = j THEN c.den ELSE 0)

IsZeroMean(mu, n) == Len(mu.num) = n /\ \A j \in 1..n : mu.num[j] = 0

(* C29: when fewer than 2 valid return rows exist for N tickers, the        *)
(* returns estimator returns an N x N diagonal covariance with 1e-4 on the  *)
(* diagonal and a zero mean vector of length N, instead of failing or       *)
(* returning empty or NaN arrays.                                           *)
C29_FewRowsNeutralPrior ==
    (Estimated /\ Len(optIn.returns) < 2) =>
        /\ IsSmallDiagonal(optOut.prod.cov, optIn.n)
        /\ IsZeroMean(optOut.prod.mu, optIn.n)
        /\ IsSmallDiagonal(optOut.hist.cov, optIn.n)
        /\ IsZeroMean(optOut.hist.mu, optIn.n)

SharpeComputed == entry = "sharpe" /\ optOut # NoOpt

(* the last W returns ending at point i *)
TrailingWindow(returns, W, i) == SubSeq(returns, Max(1, i - W + 1), i)

(* fewer than 2 points, or all points equal *)
NoVolatility(w) == Len(w) < 2 \/ \A t \in 1..Len(w) : w[t] = w[1]

(* C30: the rolling Sharpe value at each point uses only the trailing       *)
(* window of W returns ending at that point, one value per equity point,    *)
(* and is undefined (NaN) whenever that window has fewer than 2 points or   *)
(* zero sample volatility; this holds for rolling_sharpe and for the        *)
(* rolling_sharpe value written into daily snapshots.                       *)
C30_TrailingWindowSharpe ==
    SharpeComputed =>
        LET W == optIn.window
            daily == FirstDayZero(optIn.returns)
        IN  /\ Len(optOut.sharpe) = Len(optIn.returns)
            /\ Len(optOut.snapshots) = Len(daily)
            /\ \A i \in 1..Len(optIn.returns) :
                /\ LET w == TrailingWindow(optIn.returns, W, i)
                   IN  /\ optOut.sharpe[i] = rolling_sharpe(w, W)[Len(w)]
                       /\ NoVolatility(w) => optOut.sharpe[i].nan
                /\ LET w == TrailingWindow(daily, W, i)
                   IN  /\ optOut.snapshots[i] = snapshot_rolling_sharpe(w)[Len(w)]
                       /\ NoVolatility(w) => optOut.snapshots[i].nan

(* C28: a singular covariance matrix never makes view fusion raise:        *)
(* black_litterman returns a result computed with pseudo-inverses.         *)
C28_SingularNeverRaises ==
    Fused => ~optOut.blm.raised

(* C11: with an empty view set black_litterman (both copies) returns a      *)
(* posterior mean equal to pi = risk_aversion * Sigma * w_mkt, for every    *)
(* covariance and market-weight vector.                                     *)
C11_NoViewPassthrough ==
    (Fused /\ DOMAIN optIn.views = {}) =>
        /\ SameVector(optOut.tst.mu_bl, optOut.tst.pi)
        /\ ~optOut.blm.raised
        /\ SameVector(optOut.blm.mu_bl, optOut.blm.pi)

============================================================================
